---- MODULE Spec2Model ----
(***************************************************************************)
(* A model of the gago genetic-algorithm engine (package ga): the GA       *)
(* struct with Initialize and Evolve, the Population and its Statistics,   *)
(* the worker pool of evaluatePopulationInParallel, and the termination    *)
(* conditions of package termination.                                      *)
(*                                                                         *)
(* Individuals are heap objects: a reference is an index into heap, 0 is   *)
(* the nil pointer.  A Phenotype pointer is <<>> (nil) or <<fitness>>.     *)
(* Rates are in thousandths (0.1 is 100).                                  *)
(***************************************************************************)
EXTENDS Integers, Sequences, FiniteSets, TLC

\* ---------------------------------------------------------------- bounds
MaxPop == 2
GenomeLen == 1
MaxGenerations == 1
MaxWorkers == 2
MaxEvalPop == 2
MaxTermSteps == 3
MaxConditions == 2
MaxLoss == 2
MaxSpread == 2

\* ------------------------------------------------------ program constants
SentinelFitness == -1000
DefaultMutationRate == 100
DefaultCrossoverRate == 800
TournamentSize == 3
InitialStagnationBest == -1
\* bestDiversity := 0.0 of DiversityStagnationTermination
InitialBestDiversity == 0

Nil == 0
NilPhenotype == <<>>

\* runtime.NumCPU(): the host's parallelism
NumCPU == 2
MinMutationRate == 10
MaxMutationRate == 500
MinCrossoverRate == 100
MaxCrossoverRate == 950
NaN == -1                   \* a float64 that is not a number
PosInf == 1000000           \* the float64 +Inf, as a fitness

\* -------------------------------------------------------------- helpers
Genomes == [1..GenomeLen -> {0, 1}]

RECURSIVE SumTo(_, _)
SumTo(f, n) == IF n = 0 THEN 0 ELSE f[n] + SumTo(f, n - 1)

Range(s) == {s[i] : i \in DOMAIN s}

\* A count that takes the first of the two whatever the second.
minMutant(a, b) == a

min(a, b) == IF a < b THEN a ELSE b

\* The caller's evaluator of the tests: the number of 1 genes.
CountOnes(g) == SumTo(g, Len(g))

\* The genome on which a failing evaluator fails.
FailGenome == [i \in 1..GenomeLen |-> 1]

\* evaluatePhenotype(genotype) for the evaluator the caller supplies: it
\* panics, returns nil (phenotype <<>>) or returns &Phenotype{Fitness: f}
\* (phenotype <<f>>).  A failing evaluator fails on FailGenome, always; an
\* "infinite" one returns a fitness of +Inf for it.
Evaluator(fail, g) ==
    IF fail = "panic" /\ g = FailGenome
    THEN [panic |-> TRUE, phenotype |-> NilPhenotype]
    ELSE IF fail = "nil" /\ g = FailGenome
    THEN [panic |-> FALSE, phenotype |-> NilPhenotype]
    ELSE IF fail = "infinite" /\ g = FailGenome
    THEN [panic |-> FALSE, phenotype |-> <<PosInf>>]
    ELSE [panic |-> FALSE, phenotype |-> <<CountOnes(g)>>]

\* ----------------------------------------------------- Population methods
ZeroStatistics ==
    [BestFitness |-> 0, WorstFitness |-> 0, SumFitness |-> 0, N |-> 0, SqDev |-> 0]

Fit(h, r) == h[r].Phenotype[1]

\* A nil individual or a nil Phenotype makes CalculateStatistics,
\* SortByFitness and FindBestIndividual dereference nil.
HasNil(h, inds) ==
    \E i \in DOMAIN inds : inds[i] = Nil \/ h[inds[i]].Phenotype = NilPhenotype

\* A best fitness that is the first individual's.
MaxFitMutant(h, inds, n) == Fit(h, inds[1])

RECURSIVE MaxFit(_, _, _)
MaxFit(h, inds, n) ==
    IF n = 1 THEN Fit(h, inds[1])
    ELSE LET m == MaxFit(h, inds, n - 1)
         IN  IF Fit(h, inds[n]) > m THEN Fit(h, inds[n]) ELSE m

RECURSIVE MinFit(_, _, _)
MinFit(h, inds, n) ==
    IF n = 1 THEN Fit(h, inds[1])
    ELSE LET m == MinFit(h, inds, n - 1)
         IN  IF Fit(h, inds[n]) < m THEN Fit(h, inds[n]) ELSE m

\* AverageFitness is SumFitness / N and Diversity is
\* sqrt(SqDev / N^3): SqDev is the sum of (N * fitness - SumFitness)^2.
\* With a fitness of +Inf in the population the total is +Inf and that
\* individual's diff is Inf - Inf: the sum of squares is NaN.
CalculateStatistics(h, inds, old) ==
    IF Len(inds) = 0 THEN old
    ELSE LET n == Len(inds)
             total == SumTo([i \in 1..n |-> Fit(h, inds[i])], n)
             infinite == \E i \in 1..n : Fit(h, inds[i]) = PosInf
         IN  [BestFitness |-> MaxFit(h, inds, n),
              WorstFitness |-> MinFit(h, inds, n),
              SumFitness |-> IF infinite THEN PosInf ELSE total,
              N |-> n,
              SqDev |-> IF infinite THEN NaN
                        ELSE SumTo([i \in 1..n |->
                                      (n * Fit(h, inds[i]) - total)
                                      * (n * Fit(h, inds[i]) - total)], n)]

\* math.Sqrt on a whole number, rounded down: the root lies in lo..hi.
RECURSIVE SqrtBetween(_, _, _)
SqrtBetween(x, lo, hi) ==
    IF lo >= hi THEN lo
    ELSE LET mid == (lo + hi + 1) \div 2
         IN  IF mid * mid <= x THEN SqrtBetween(x, mid, hi)
             ELSE SqrtBetween(x, lo, mid - 1)

\* math.Min and math.Max: NaN if either argument is NaN.
FMin(x, y) == IF x = NaN \/ y = NaN THEN NaN ELSE IF x < y THEN x ELSE y
FMax(x, y) == IF x = NaN \/ y = NaN THEN NaN ELSE IF x > y THEN x ELSE y

\* A standard deviation is at most the distance between the least and the
\* greatest fitness, here in thousandths.
MaxDiversity == 1000 * (GenomeLen + MaxSpread + MaxLoss + 1)

\* Statistics.Diversity, sqrt(SqDev / N^3), in thousandths to the nearest
\* hundredth below; MaxDiversity stands for every greater value.
Diversity(stats) ==
    IF stats.SqDev = NaN THEN NaN
    ELSE IF stats.N = 0 THEN 0
    ELSE LET cube == stats.N * stats.N * stats.N
             most == MaxDiversity \div 1000
         IN  IF stats.SqDev >= cube * most * most THEN MaxDiversity
             ELSE 10 * SqrtBetween((10000 * stats.SqDev) \div cube, 0,
                                   MaxDiversity \div 10)

\* math.Min(Statistics.Diversity, 1.0) in thousandths, rounded down.
\* Diversity is sqrt(SqDev / N^3): at least 1 when SqDev >= N^3.
NormalizedDiversity(stats) ==
    IF stats.SqDev = NaN THEN NaN
    ELSE IF stats.N = 0 THEN 0
    ELSE IF stats.SqDev >= stats.N * stats.N * stats.N THEN 1000
    ELSE FMin(SqrtBetween((1000000 * stats.SqDev) \div (stats.N * stats.N * stats.N),
                          0, 1000),
              1000)

\* FindBestIndividual: the first individual of maximal fitness.
RECURSIVE FindBestFrom(_, _, _, _)
FindBestFrom(h, inds, i, best) ==
    IF i > Len(inds) THEN best
    ELSE FindBestFrom(h, inds, i + 1,
                      IF Fit(h, inds[i]) > Fit(h, best) THEN inds[i] ELSE best)

FindBestIndividual(h, inds) ==
    IF Len(inds) = 0 THEN Nil ELSE FindBestFrom(h, inds, 1, inds[1])

Perms(n) == {p \in [1..n -> 1..n] : \A i, j \in 1..n : p[i] = p[j] => i = j}

\* SortByFitness is sort.Slice with "greater fitness first": the result is
\* some descending order of the same individuals; sort.Slice promises no
\* order among equal elements.
SortedOrders(h, inds) ==
    {[i \in 1..Len(inds) |-> inds[p[i]]] : p \in
        {q \in Perms(Len(inds)) :
            \A i \in 1..(Len(inds) - 1) :
                Fit(h, inds[q[i]]) >= Fit(h, inds[q[i + 1]])}}

\* Population.Replace(index, individual), index counted from 0.
Replace(inds, index, individual) ==
    IF index >= 0 /\ index < Len(inds)
    THEN [inds EXCEPT ![index + 1] = individual]
    ELSE inds

\* ------------------------------------------------------ genetic operators
\* TournamentSelection: the best of tournamentSize random picks, the first
\* pick winning ties.
RECURSIVE TournamentBest(_, _, _, _)
TournamentBest(h, tournament, j, best) ==
    IF j > Len(tournament) THEN best
    ELSE TournamentBest(h, tournament, j + 1,
             IF Fit(h, tournament[j]) > Fit(h, best) THEN tournament[j] ELSE best)

TournamentWinners(h, population) ==
    {TournamentBest(h, [j \in 1..TournamentSize |-> population[t[j]]], 2, population[t[1]]) :
        t \in [1..TournamentSize -> 1..Len(population)]}

\* The outcomes of TournamentSelection(population, 3): nil for an empty
\* population, otherwise one tournament winner per slot.
TournamentSelection(h, population) ==
    IF Len(population) = 0 THEN {<<>>}
    ELSE [1..Len(population) -> TournamentWinners(h, population)]

\* rand.Float64() < rate, with rand.Float64() in [0, 1).
MayHappen(rate) == rate > 0
MaySkip(rate) == rate < 1000

\* The genomes of the two children of a single-point crossover at `point`.
Child(g1, g2, point) == [j \in 1..Len(g1) |-> IF j <= point THEN g1[j] ELSE g2[j]]

\* SinglePointCrossover: choice[i] is -1 when pair i passes through and the
\* crossover point otherwise.  It returns the offspring slice and the heap
\* with the children allocated (their Phenotype is nil).  A last unpaired
\* slot stays nil.
RECURSIVE CrossPairs(_, _, _, _, _)
CrossPairs(h, population, choice, i, offs) ==
    IF i > Len(population) \div 2 THEN [heap |-> h, offspring |-> offs]
    ELSE IF choice[i] < 0
    THEN CrossPairs(h, population, choice, i + 1,
             [offs EXCEPT ![2 * i - 1] = population[2 * i - 1],
                          ![2 * i] = population[2 * i]])
    ELSE LET g1 == h[population[2 * i - 1]].Genotype
             g2 == h[population[2 * i]].Genotype
             c1 == [Genotype |-> Child(g1, g2, choice[i]), Phenotype |-> NilPhenotype]
             c2 == [Genotype |-> Child(g2, g1, choice[i]), Phenotype |-> NilPhenotype]
         IN  CrossPairs(h \o <<c1, c2>>, population, choice, i + 1,
                 [offs EXCEPT ![2 * i - 1] = Len(h) + 1,
                              ![2 * i] = Len(h) + 2])

CrossChoices(population, rate) ==
    [1..(Len(population) \div 2) ->
        (IF MaySkip(rate) THEN {-1} ELSE {})
        \cup (IF MayHappen(rate) THEN 0..(GenomeLen - 1) ELSE {})]

SinglePointCrossover(h, population, choice) ==
    CrossPairs(h, population, choice, 1, [i \in 1..Len(population) |-> Nil])

\* UniformCrossover: choice[i] is <<>> when pair i passes through and
\* otherwise says, gene by gene, whether the first child takes the gene of
\* the first parent (1) or of the second (0).  A last unpaired slot stays
\* nil.
Mix(g1, g2, mask) == [j \in 1..Len(g1) |-> IF mask[j] = 1 THEN g1[j] ELSE g2[j]]

RECURSIVE UniformPairs(_, _, _, _, _)
UniformPairs(h, population, choice, i, offs) ==
    IF i > Len(population) \div 2 THEN [heap |-> h, offspring |-> offs]
    ELSE IF choice[i] = <<>>
    THEN UniformPairs(h, population, choice, i + 1,
             [offs EXCEPT ![2 * i - 1] = population[2 * i - 1],
                          ![2 * i] = population[2 * i]])
    ELSE LET g1 == h[population[2 * i - 1]].Genotype
             g2 == h[population[2 * i]].Genotype
             c1 == [Genotype |-> Mix(g1, g2, choice[i]), Phenotype |-> NilPhenotype]
             c2 == [Genotype |-> Mix(g2, g1, choice[i]), Phenotype |-> NilPhenotype]
         IN  UniformPairs(h \o <<c1, c2>>, population, choice, i + 1,
                 [offs EXCEPT ![2 * i - 1] = Len(h) + 1,
                              ![2 * i] = Len(h) + 2])

UniformChoices(population, rate) ==
    [1..(Len(population) \div 2) ->
        (IF MaySkip(rate) THEN {<<>>} ELSE {})
        \cup (IF MayHappen(rate) THEN [1..GenomeLen -> {0, 1}] ELSE {})]

UniformCrossover(h, population, choice) ==
    UniformPairs(h, population, choice, 1, [i \in 1..Len(population) |-> Nil])

\* BitFlipMutation: slot by slot, gene by gene, flip[i][j] = 1 flips gene j
\* of the individual in slot i, in place.
RECURSIVE BitFlip(_, _, _, _)
BitFlip(h, population, flip, i) ==
    IF i > Len(population) THEN h
    ELSE LET g == h[population[i]].Genotype
             m == [j \in 1..Len(g) |-> IF flip[i][j] = 1 THEN 1 - g[j] ELSE g[j]]
         IN  BitFlip([h EXCEPT ![population[i]].Genotype = m], population, flip, i + 1)

BitFlipMutation(h, population, flip) == BitFlip(h, population, flip, 1)

FlipChoices(population, rate) ==
    [1..Len(population) ->
        [1..GenomeLen -> (IF MaySkip(rate) THEN {0} ELSE {})
                         \cup (IF MayHappen(rate) THEN {1} ELSE {})]]

\* cloneIndividual: a new Individual with a copy of the genome and a new
\* Phenotype holding the same fitness.
cloneIndividual(h, ind) ==
    [Genotype |-> h[ind].Genotype, Phenotype |-> <<Fit(h, ind)>>]

\* --------------------------------------------------- adaptive parameters
\* The clamps of updateAdaptiveParams: math.Max(lo, math.Min(hi, rate)).
ClampRate(lo, hi, rate) == FMax(lo, FMin(hi, rate))

\* GA.updateAdaptiveParams: the rates, in thousandths (rounded down), it
\* leaves for a population with these statistics.  Arithmetic on NaN is NaN.
updateAdaptiveParams(stats) ==
    LET normalizedDiversity == NormalizedDiversity(stats)
        mutationRate == IF normalizedDiversity = NaN THEN NaN
                        ELSE (DefaultMutationRate
                              * (1000 + (1000 - normalizedDiversity))) \div 1000
        crossoverRate == IF normalizedDiversity = NaN THEN NaN
                         ELSE (DefaultCrossoverRate * normalizedDiversity) \div 1000
    IN  [MutationRate |-> ClampRate(MinMutationRate, MaxMutationRate, mutationRate),
         CrossoverRate |-> ClampRate(MinCrossoverRate, MaxCrossoverRate, crossoverRate)]

\* -------------------------------------------------- termination conditions
\* A condition is [kind, param, conditions]; the closure variables of a
\* stateful condition (bestFitness, stagnationCount) are its state
\* [best, count].  view is what a condition reads of the engine:
\* Population.Statistics.BestFitness and len(History).
Atomic(kind, param) == [kind |-> kind, param |-> param, conditions |-> <<>>]

NoCondition == Atomic("nil", 0)

\* TerminationConditionFunc(func(ga *GA) bool { return false })
NeverTerminate == Atomic("Never", 0)

GenerationCountTermination(maxGenerations) == Atomic("GenerationCount", maxGenerations)

FitnessThresholdTermination(threshold) == Atomic("FitnessThreshold", threshold)

FitnessStagnationTermination(generations) ==
    Atomic("FitnessStagnation", IF generations < 1 THEN 1 ELSE generations)

\* DiversityStagnationTermination(generations): generations < 1 is taken as 1.
DiversityStagnationTermination(generations) ==
    Atomic("DiversityStagnation", IF generations < 1 THEN 1 ELSE generations)

FreshState == [best |-> InitialStagnationBest, count |-> 0]

\* The closure variables of a condition as its constructor leaves them.
FreshStateOf(c) ==
    IF c.kind = "DiversityStagnation"
    THEN [best |-> InitialBestDiversity, count |-> 0]
    ELSE FreshState

\* One call of the condition's Evaluate: the result and the closure
\* variables after the call.
AtomicEvaluate(c, st, view) ==
    CASE c.kind = "GenerationCount" ->
            [res |-> view.HistoryLen >= c.param, st |-> st]
      [] c.kind = "FitnessThreshold" ->
            [res |-> view.BestFitness >= c.param, st |-> st]
      [] c.kind = "FitnessStagnation" ->
            LET st2 == IF view.BestFitness > st.best
                       THEN [best |-> view.BestFitness, count |-> 0]
                       ELSE [st EXCEPT !.count = st.count + 1]
            IN  [res |-> st2.count >= c.param, st |-> st2]
      [] c.kind = "DiversityStagnation" ->
            LET st2 == IF view.Diversity # NaN /\ view.Diversity > st.best
                       THEN [best |-> view.Diversity, count |-> 0]
                       ELSE [st EXCEPT !.count = st.count + 1]
            IN  [res |-> st2.count >= c.param, st |-> st2]
      [] OTHER -> [res |-> FALSE, st |-> st]

\* NewCompositeTermination(operator, conditions...): nil conditions are
\* filtered out.
NewCompositeTermination(operator, conditions) ==
    [kind |-> "Composite", param |-> operator,
     conditions |-> SelectSeq(conditions, LAMBDA c : c.kind # "nil")]

\* case AnyTermination: return true at the first condition that is met.
RECURSIVE AnyFromMutant(_, _, _, _)
RECURSIVE AnyFrom(_, _, _, _)
\* An OR that evaluates every condition before it answers.
AnyFromMutant(conds, st, view, i) ==
    IF i > Len(conds) THEN [res |-> FALSE, st |-> st]
    ELSE LET r == AtomicEvaluate(conds[i], st[i], view)
             rest == AnyFromMutant(conds, [st EXCEPT ![i] = r.st], view, i + 1)
         IN  [res |-> r.res \/ rest.res, st |-> rest.st]
AnyFrom(conds, st, view, i) ==
    IF i > Len(conds) THEN [res |-> FALSE, st |-> st]
    ELSE LET r == AtomicEvaluate(conds[i], st[i], view)
             st2 == [st EXCEPT ![i] = r.st]
         IN  IF r.res THEN [res |-> TRUE, st |-> st2]
             ELSE AnyFrom(conds, st2, view, i + 1)

\* case AllTermination: return false at the first condition that is not met.
RECURSIVE AllFromMutant(_, _, _, _)
RECURSIVE AllFrom(_, _, _, _)
AllFromMutant(conds, st, view, i) ==
    IF i > Len(conds) THEN [res |-> FALSE, st |-> st]
    ELSE LET r == AtomicEvaluate(conds[i], st[i], view)
             st2 == [st EXCEPT ![i] = r.st]
         IN  IF r.res THEN [res |-> TRUE, st |-> st2]
             ELSE AllFromMutant(conds, st2, view, i + 1)
AllFrom(conds, st, view, i) ==
    IF i > Len(conds) THEN [res |-> TRUE, st |-> st]
    ELSE LET r == AtomicEvaluate(conds[i], st[i], view)
             st2 == [st EXCEPT ![i] = r.st]
         IN  IF ~r.res THEN [res |-> FALSE, st |-> st2]
             ELSE AllFrom(conds, st2, view, i + 1)

\* The engine pointer handed to Evaluate when it is nil.
NilGA == [BestFitness |-> 0, HistoryLen |-> -1, Diversity |-> 0]

\* CompositeTermination.Evaluate
CompositeEvaluateMutant(ct, st, view) ==
    IF view = NilGA THEN [res |-> FALSE, st |-> st]
    ELSE CASE ct.param = "Any" -> AnyFrom(ct.conditions, st, view, 1)
           [] ct.param = "All" -> AllFrom(ct.conditions, st, view, 1)
           [] OTHER -> [res |-> FALSE, st |-> st]
CompositeEvaluate(ct, st, view) ==
    IF Len(ct.conditions) = 0 \/ view = NilGA THEN [res |-> FALSE, st |-> st]
    ELSE CASE ct.param = "Any" -> AnyFrom(ct.conditions, st, view, 1)
           [] ct.param = "All" -> AllFrom(ct.conditions, st, view, 1)
           [] OTHER -> [res |-> FALSE, st |-> st]

\* TermCondition.Evaluate(ga) for any condition; st holds one closure state
\* per member (a single one for an atomic condition).
Evaluate(c, st, view) ==
    IF c.kind = "Composite" THEN CompositeEvaluate(c, st, view)
    ELSE LET r == AtomicEvaluate(c, st[1], view)
         IN  [res |-> r.res, st |-> <<r.st>>]

\* ct.AddCondition(condition): a nil condition is not added.
AddCondition(ct, condition) ==
    IF condition.kind = "nil" THEN ct
    ELSE [ct EXCEPT !.conditions = Append(ct.conditions, condition)]

\* What is left of a slice s when the element at `index` (from 0) goes:
\* append(s[:index], s[index+1:]...)
Without(s, index) ==
    SubSeq(s, 1, index) \o SubSeq(s, index + 2, Len(s))

\* ct.RemoveCondition(index): an index out of range removes nothing.
RemoveCondition(ct, index) ==
    IF index < 0 \/ index >= Len(ct.conditions) THEN ct
    ELSE [ct EXCEPT !.conditions = Without(ct.conditions, index)]

\* ct.SetOperator(operator)
SetOperator(ct, operator) == [ct EXCEPT !.param = operator]

InitialCondState(c) ==
    IF c.kind = "Composite"
    THEN [i \in 1..Len(c.conditions) |-> FreshStateOf(c.conditions[i])]
    ELSE <<FreshStateOf(c)>>

\* ------------------------------------------------------------ evaluation
\* The sequential path of evaluatePopulationInParallel: in slice order,
\* ind.Phenotype = evaluatePhenotype(ind.Genotype); a panic of the evaluator
\* leaves the function at once.
RECURSIVE EvaluateSequentially(_, _, _, _)
EvaluateSequentially(h, population, fail, i) ==
    IF i > Len(population) THEN [heap |-> h, panic |-> FALSE]
    ELSE IF population[i] = Nil
    THEN EvaluateSequentially(h, population, fail, i + 1)
    ELSE LET r == Evaluator(fail, h[population[i]].Genotype)
         IN  IF r.panic THEN [heap |-> h, panic |-> TRUE]
             ELSE EvaluateSequentially(
                      [h EXCEPT ![population[i]].Phenotype = r.phenotype],
                      population, fail, i + 1)

\* What a worker sends for a job: the phenotype and whether err is set
\* (a recovered panic, or a nil phenotype).
WorkerResultMutant(h, fail, index, ind) ==
    LET r == Evaluator(fail, h[1].Genotype)
    IN  [index |-> index,
         phenotype |-> r.phenotype,
         err |-> r.panic \/ r.phenotype = NilPhenotype]
WorkerResult(h, fail, index, ind) ==
    LET r == Evaluator(fail, h[ind].Genotype)
    IN  [index |-> index,
         phenotype |-> r.phenotype,
         err |-> r.panic \/ r.phenotype = NilPhenotype]

\* The result loop: population[res.index].Phenotype is the sentinel when
\* res.err is set and res.phenotype otherwise.
ApplyResultMutant(h, population, res) ==
    [h EXCEPT ![population[res.index]].Phenotype = res.phenotype]
ApplyResult(h, population, res) ==
    [h EXCEPT ![population[res.index]].Phenotype =
        IF res.err THEN <<SentinelFitness>> ELSE res.phenotype]

\* The worker pool as a whole: one job per non-nil slot, each result applied.
RECURSIVE PoolOutcome(_, _, _, _)
PoolOutcome(h, population, fail, i) ==
    IF i > Len(population) THEN h
    ELSE IF population[i] = Nil THEN PoolOutcome(h, population, fail, i + 1)
    ELSE PoolOutcome(
             ApplyResult(h, population, WorkerResult(h, fail, i, population[i])),
             population, fail, i + 1)

evaluatePopulationInParallel(h, population, numParallelEvals, fail) ==
    IF Len(population) = 0 THEN [heap |-> h, panic |-> FALSE]
    ELSE IF numParallelEvals <= 1 THEN EvaluateSequentially(h, population, fail, 1)
    ELSE [heap |-> PoolOutcome(h, population, fail, 1), panic |-> FALSE]

\* ------------------------------------------------------- the heap, tidied
\* Individuals no longer referenced are garbage: the heap keeps the
\* referenced ones, renumbered in the order of `roots`.
RECURSIVE Dedup(_, _, _)
Dedup(roots, i, acc) ==
    IF i > Len(roots) THEN acc
    ELSE Dedup(roots, i + 1,
               IF roots[i] = Nil \/ roots[i] \in Range(acc) THEN acc
               ELSE Append(acc, roots[i]))

Compact(h, roots) ==
    LET order == Dedup(roots, 1, <<>>)
    IN  [heap |-> [i \in 1..Len(order) |-> h[order[i]]],
         map |-> [r \in 0..Len(h) |->
                    IF r \in Range(order)
                    THEN CHOOSE i \in 1..Len(order) : order[i] = r
                    ELSE Nil]]

Renumber(map, refs) == [i \in 1..Len(refs) |-> map[refs[i]]]

\* ================================================================ state
\* lastGood before any population exists.
NothingYet == [population |-> <<>>, History |-> <<>>]

\* initArgs before any Initialize.
NoArgs == [populationSize |-> 0, collaborators |-> "none"]

VARIABLES
    pc,                 \* where the caller / Evolve stands
    heap,               \* the Individual objects
    Individuals,        \* ga.Population.Individuals
    Statistics,         \* ga.Population.Statistics
    History,            \* ga.History
    Generations, ElitismCount, NumParallelEvals,
    MutationRate, CrossoverRate,
    TermCondition,      \* ga.TermCondition
    condState,          \* the closure variables of TermCondition
    evalFail,           \* the caller's evaluator: "none", "panic", "nil", "infinite"
    nilOperators,       \* which of ga.Selection, ga.Crossover, ga.Mutation are nil
    AdaptiveParams,     \* ga.AdaptiveParams
    gen, bestIndividual, bestFitness,           \* locals of Evolve
    selectedIndividuals, offspring, elites,     \* locals of Evolve
    lastCall,           \* the last call that returned, and how
    reinit,             \* the last Initialize found an engine that had run
    returned,           \* the individual the last Evolve returned
    initializedWith,    \* the populationSize of the last successful Initialize
    panicCause,         \* why the call in progress panicked
    completed,          \* generations completed since the last Initialize
    runStart,           \* `completed` when the current Evolve was called
    initArgs,           \* what the last Initialize was called with
    lastGood,           \* the population, by value, and History as the last
                        \* completed generation (or Initialize) left them
    preGen,             \* the population's individuals, by value, as they
                        \* were just before the current generation's Mutation
    call0, jobs, results, jobsClosed, resultsClosed,
    workers, poolMain, submitIdx, errorChan, writes,   \* the worker pool
    invoked,            \* how often the evaluator was called for each slot
                        \* in the current evaluatePopulationInParallel
    aloneState, termResult, aloneResult,    \* termination harness
    termSteps,          \* the calls of TermCondition.Evaluate so far, for
                        \* the engine since its last Initialize
    observed            \* what each Evaluate of a condition saw of the engine

gaVars == <<Individuals, Statistics, History, Generations, ElitismCount,
            NumParallelEvals, MutationRate, CrossoverRate, TermCondition>>
runVars == <<gen, bestIndividual, bestFitness, selectedIndividuals, offspring, elites>>
callerVars == <<evalFail, nilOperators, AdaptiveParams>>
progressVars == <<completed, runStart, lastGood, initArgs>>
callVars == <<lastCall, reinit, returned, initializedWith, panicCause>>
poolVars == <<call0, jobs, results, jobsClosed, resultsClosed,
              workers, poolMain, submitIdx, errorChan, writes, invoked>>
termVars == <<aloneState, termResult, aloneResult, termSteps, observed>>
vars == <<pc, heap, gaVars, condState, callerVars, runVars, callVars, progressVars,
          preGen, poolVars, termVars>>

\* What initializeGenotype may hand to Initialize for a population of n: any
\* genomes for a fresh engine, one genome repeated for an engine used before.
InitializerOutputs(n) ==
    IF lastCall = "none" THEN [1..n -> Genomes]
    ELSE {[i \in 1..n |-> g] : g \in Genomes}

\* What the caller may configure before Initialize.
GenerationsInputs == {0, MaxGenerations}
ElitismInputs == {-1, 0, 1, MaxPop + 1}
ParallelInputs == {0, 1, 2}
MutationRateInputs == {10}
CrossoverRateInputs == {700}
TermInputs == {NoCondition, FitnessThresholdTermination(GenomeLen)}
EvaluatorInputs == {"none", "panic", "nil"}
\* The adaptive engines of the model have a sound evaluator and no
\* termination condition.
AdaptiveInputs(evaluator, term) ==
    IF evaluator = "none" /\ term = NoCondition THEN BOOLEAN ELSE {FALSE}

\* What Initialize is called with beside the size: both functions, a nil
\* initializer, a nil evaluator, or an initializer that returns nil.
CollaboratorInputs == {"present", "nil initializer", "nil evaluator", "nil genotype"}

\* Configurations for Initialize alone: mutation and crossover rates in and
\* out of (0, 1], any Generations, an operator left nil.
AnyRateInputs ==
    {<<10, 700>>, <<0, 1000>>, <<1000, 0>>, <<2000, -1000>>, <<-1000, 2000>>}
AnyGenerationsInputs == {-2, -1, MaxGenerations}
OperatorInputs == {{}, {"Selection"}, {"Crossover"}, {"Mutation"}}

PoolIdle ==
    /\ call0 = <<>>
    /\ jobs = <<>>
    /\ results = <<>>
    /\ jobsClosed = FALSE
    /\ resultsClosed = FALSE
    /\ workers = <<>>
    /\ poolMain = "none"
    /\ submitIdx = 0
    /\ errorChan = 0
    /\ writes = <<>>
    /\ invoked = <<>>

HarnessIdle ==
    /\ aloneState = <<>>
    /\ termResult = FALSE
    /\ aloneResult = <<>>
    /\ observed = <<>>
    /\ termSteps = 0

\* A GA value as a caller builds it: &GA{...} with its configuration set
\* and everything else zero.
\* The engine as constructed, before any call.
Unstarted ==
    /\ pc = "idle"
    /\ heap = <<>>
    /\ Individuals = <<>>
    /\ Statistics = ZeroStatistics
    /\ History = <<>>
    /\ condState = InitialCondState(TermCondition)
    /\ gen = 0
    /\ bestIndividual = Nil
    /\ bestFitness = 0
    /\ selectedIndividuals = <<>>
    /\ offspring = <<>>
    /\ elites = <<>>
    /\ lastCall = "none"
    /\ reinit = FALSE
    /\ returned = Nil
    /\ initializedWith = 0
    /\ panicCause = "none"
    /\ completed = 0
    /\ runStart = 0
    /\ initArgs = NoArgs
    /\ lastGood = NothingYet
    /\ preGen = <<>>
    /\ PoolIdle
    /\ HarnessIdle

Init ==
    /\ Generations \in GenerationsInputs
    /\ ElitismCount \in ElitismInputs
    /\ NumParallelEvals \in ParallelInputs
    /\ MutationRate \in MutationRateInputs
    /\ CrossoverRate \in CrossoverRateInputs
    /\ TermCondition \in TermInputs
    /\ evalFail \in EvaluatorInputs
    /\ nilOperators = {}
    /\ AdaptiveParams \in AdaptiveInputs(evalFail, TermCondition)
    /\ Unstarted

\* ================================================================ engine
Returns(how) ==
    /\ lastCall' = how
    /\ reinit' = (how = "Initialize:ok" /\ lastCall = "Evolve:ok" /\ Len(History) > 1)

Panics(why) ==
    /\ pc' = "panicked"
    /\ panicCause' = why
    /\ UNCHANGED <<lastCall, reinit, returned, initializedWith>>

\* A panic unwinds Evolve: its locals are gone, and of the heap `h` what the
\* GA still references remains.
Unwinds(h, inds) ==
    LET c == Compact(h, inds)
    IN  /\ heap' = c.heap
        /\ Individuals' = Renumber(c.map, inds)
        /\ gen' = 0
        /\ bestIndividual' = Nil
        /\ bestFitness' = 0
        /\ selectedIndividuals' = <<>>
        /\ offspring' = <<>>
        /\ elites' = <<>>

\* ga.History = make([]*Statistics, 0, ga.Generations+1), then the append of
\* the initial statistics.
ResetHistoryMutant(history, stats) == Append(history, stats)
ResetHistory(history, stats) == <<stats>>

\* ga.History = append(ga.History, ga.Population.Statistics)
AppendHistoryMutant(history, stats) == <<stats>> \o history
AppendHistory(history, stats) == Append(history, stats)

\* ElitismCount as Initialize leaves it.
ClampElitismCountMutant(count, populationSize) ==
    IF count < 0 THEN 0 ELSE count
ClampElitismCount(count, populationSize) ==
    IF count < 0 THEN 0
    ELSE IF count > populationSize THEN populationSize
    ELSE count

\* A rate as Initialize leaves it: 1000 is the rate 1.
ValidRateMutant(rate, default) ==
    IF rate # NaN /\ rate <= 0 THEN default ELSE rate
ValidRate(rate, default) ==
    IF rate # NaN /\ (rate <= 0 \/ rate > 1000) THEN default ELSE rate

\* The individuals of a population by value, in slice order.
ByValue(h, inds) == [i \in 1..Len(inds) |-> h[inds[i]]]

\* GA.Initialize(populationSize, initializeGenotype, evaluatePhenotype):
\* genomes[i] is what initializeGenotype returns for slot i.
Initialize(populationSize, collaborators, genomes) ==
    /\ pc = "idle"
    /\ initArgs' = [populationSize |-> populationSize, collaborators |-> collaborators]
    /\ UNCHANGED <<Generations, condState, callerVars, runVars, runStart, preGen,
                   poolVars, aloneState, termResult, aloneResult, observed>>
    /\ IF populationSize <= 0 \/ collaborators \in {"nil initializer", "nil evaluator"}
       THEN /\ Returns("Initialize:error")
            /\ UNCHANGED <<pc, heap, Individuals, Statistics, History, ElitismCount,
                           NumParallelEvals, MutationRate, CrossoverRate,
                           TermCondition, returned, initializedWith, panicCause,
                           completed, lastGood, termSteps>>
       ELSE IF \/ collaborators = "nil genotype"
               \/ \E i \in 1..populationSize :
                     \/ Evaluator(evalFail, genomes[i]).panic
                     \/ Evaluator(evalFail, genomes[i]).phenotype = NilPhenotype
       THEN \* initFunc panics inside NewPopulation: nothing is assigned
            /\ Panics("Initialize")
            /\ UNCHANGED <<heap, Individuals, Statistics, History, ElitismCount,
                           NumParallelEvals, MutationRate, CrossoverRate,
                           TermCondition, completed, lastGood, termSteps>>
       ELSE LET h == [i \in 1..populationSize |->
                        [Genotype |-> genomes[i],
                         Phenotype |-> Evaluator(evalFail, genomes[i]).phenotype]]
                inds == [i \in 1..populationSize |-> i]
                stats == CalculateStatistics(h, inds, ZeroStatistics)
            IN  /\ heap' = h
                /\ Individuals' = inds
                /\ Statistics' = stats
                /\ IF Generations + 1 < 0
                   THEN \* make([]*Statistics, 0, ga.Generations+1) panics
                        /\ Panics("Initialize")
                        /\ UNCHANGED <<History, ElitismCount, NumParallelEvals,
                                       MutationRate, CrossoverRate, TermCondition,
                                       completed, lastGood, termSteps>>
                   ELSE /\ History' = ResetHistory(History, stats)
                        /\ completed' = 0
                        /\ termSteps' = 0
                        /\ lastGood' = [population |-> ByValue(h, inds),
                                        History |-> History']
                        /\ NumParallelEvals' =
                              IF NumParallelEvals <= 0 THEN NumCPU ELSE NumParallelEvals
                        /\ ElitismCount' = ClampElitismCount(ElitismCount, populationSize)
                        /\ TermCondition' =
                              IF TermCondition = NoCondition THEN NeverTerminate
                              ELSE TermCondition
                        /\ IF nilOperators # {}
                           THEN \* the operators are checked here, after the rest
                                /\ Returns("Initialize:error")
                                /\ UNCHANGED <<pc, MutationRate, CrossoverRate, returned,
                                               initializedWith, panicCause>>
                           ELSE /\ MutationRate' = ValidRate(MutationRate, DefaultMutationRate)
                                /\ CrossoverRate' = ValidRate(CrossoverRate, DefaultCrossoverRate)
                                /\ Returns("Initialize:ok")
                                /\ returned' = Nil
                                /\ initializedWith' = populationSize
                                /\ UNCHANGED <<pc, panicCause>>

\* The steps of one iteration of Evolve's loop, in the order of the code:
\* Selection, Crossover, Mutation, the elite snapshot with the adaptive
\* update after it, the evaluation, the rest up to the History append, and
\* the termination check.
GenerationStepsMutant ==
    <<"select", "cross", "elite", "eval", "mutate", "finish", "term">>
GenerationStepsEarlyCheck ==
    <<"select", "cross", "mutate", "elite", "eval", "term", "finish">>
GenerationSteps ==
    <<"select", "cross", "mutate", "elite", "eval", "finish", "term">>

StepAfter(step) ==
    GenerationSteps[1 + CHOOSE k \in 1..(Len(GenerationSteps) - 1) :
                             GenerationSteps[k] = step]

\* for gen := 0; gen < ga.Generations; gen++
NextIterationMutant(g) == IF g <= Generations THEN "select" ELSE "return"
NextIteration(g) == IF g < Generations THEN "select" ELSE "return"

\* GA.Evolve(evaluatePhenotype), up to the loop.  Evolve may be called again
\* on the engine a previous Evolve left: it goes on from that population and
\* that History.  The model stops calling it once History would outgrow
\* MaxGenerations + 2 entries.
EvolveStart(evaluatorIsNil) ==
    /\ pc = "idle"
    /\ lastCall \in {"Initialize:ok", "Evolve:ok"}
    /\ Len(History) + Generations <= MaxGenerations + 2
    /\ runStart' = completed
    /\ UNCHANGED <<heap, gaVars, condState, callerVars, selectedIndividuals, offspring,
                   elites, panicCause, completed, lastGood, initArgs, preGen, poolVars,
                   termVars>>
    /\ IF evaluatorIsNil
       THEN /\ Returns("Evolve:error")
            /\ UNCHANGED <<pc, gen, bestIndividual, bestFitness, returned,
                           initializedWith>>
       ELSE /\ bestIndividual' = FindBestIndividual(heap, Individuals)
            /\ bestFitness' = Fit(heap, bestIndividual')
            /\ gen' = 0
            /\ pc' = NextIteration(0)
            /\ reinit' = FALSE
            /\ UNCHANGED <<lastCall, returned, initializedWith>>

\* selectedIndividuals = ga.Selection(ga.Population.Individuals)
\* ga.Selection is the caller's: TournamentSelection, or an operator that
\* returns an empty slice.
SelectionOutputs(h, inds) == TournamentSelection(h, inds) \cup {<<>>}

\* return nil, fmt.Errorf(...) from inside the loop: the locals are gone.
ReturnsErrorMutant ==
    /\ Returns("Evolve:error")
    /\ returned' = Nil
    /\ pc' = "idle"
    /\ Unwinds(heap, <<>>)
    /\ UNCHANGED <<initializedWith, panicCause>>
ReturnsError ==
    /\ Returns("Evolve:error")
    /\ returned' = Nil
    /\ pc' = "idle"
    /\ Unwinds(heap, Individuals)
    /\ UNCHANGED <<initializedWith, panicCause>>

Select ==
    /\ pc = "select"
    /\ \E selected \in SelectionOutputs(heap, Individuals) :
          IF Len(selected) = 0
          THEN ReturnsError
          ELSE /\ selectedIndividuals' = selected
               /\ pc' = StepAfter("select")
               /\ UNCHANGED <<heap, Individuals, gen, bestIndividual, bestFitness,
                              offspring, elites, callVars>>
    /\ UNCHANGED <<Statistics, History, Generations, ElitismCount, NumParallelEvals,
                   MutationRate, CrossoverRate, TermCondition, condState, callerVars,
                   progressVars, preGen, poolVars, termVars>>

\* offspring = ga.Crossover(selectedIndividuals, ga.CrossoverRate)
\* ga.Crossover is the caller's: SinglePointCrossover, or an operator that
\* returns an empty slice.
Crossover ==
    /\ pc = "cross"
    /\ \/ \E choice \in CrossChoices(selectedIndividuals, CrossoverRate) :
             LET r == SinglePointCrossover(heap, selectedIndividuals, choice)
             IN  /\ heap' = r.heap
                 /\ offspring' = r.offspring
                 /\ selectedIndividuals' = <<>>   \* not read again in this iteration
                 /\ pc' = StepAfter("cross")
                 /\ UNCHANGED <<Individuals, gen, bestIndividual, bestFitness,
                                elites, callVars>>
       \/ ReturnsError
    /\ UNCHANGED <<Statistics, History, Generations, ElitismCount, NumParallelEvals,
                   MutationRate, CrossoverRate, TermCondition, condState, callerVars,
                   progressVars, preGen, poolVars, termVars>>

\* The slots BitFlipMutation reaches before it dereferences a nil individual.
RECURSIVE NonNilPrefix(_, _)
NonNilPrefix(s, i) ==
    IF i > Len(s) \/ s[i] = Nil THEN SubSeq(s, 1, i - 1) ELSE NonNilPrefix(s, i + 1)

\* ga.Mutation(offspring, ga.MutationRate)
Mutation ==
    /\ pc = "mutate"
    /\ preGen' = [i \in 1..Len(Individuals) |-> heap[Individuals[i]]]
    /\ \E flip \in FlipChoices(NonNilPrefix(offspring, 1), MutationRate) :
          LET h == BitFlipMutation(heap, NonNilPrefix(offspring, 1), flip)
          IN  IF \E i \in DOMAIN offspring : offspring[i] = Nil
              THEN /\ Panics("nil individual")
                   /\ Unwinds(h, Individuals)
              ELSE /\ heap' = h
                   /\ pc' = StepAfter("mutate")
                   /\ UNCHANGED <<Individuals, runVars, callVars>>
    /\ UNCHANGED <<Statistics, History, Generations, ElitismCount, NumParallelEvals,
                   MutationRate, CrossoverRate, TermCondition, condState, callerVars,
                   progressVars, poolVars, termVars>>

\* The clones of the first k individuals, allocated at the end of the heap.
ElitesOf(h, sorted, k) ==
    [i \in 1..min(k, Len(sorted)) |-> cloneIndividual(h, sorted[i])]

\* The elite snapshot with a rate update that does not ask for AdaptiveParams.
CaptureElitesMutant ==
    /\ pc = "elite"
    /\ IF ElitismCount > 0
       THEN \E sorted \in SortedOrders(heap, Individuals) :
              LET clones == ElitesOf(heap, sorted, ElitismCount)
              IN  /\ Individuals' = sorted
                  /\ heap' = heap \o clones
                  /\ elites' = [i \in 1..Len(clones) |-> Len(heap) + i]
       ELSE UNCHANGED <<Individuals, heap, elites>>
    /\ MutationRate' = updateAdaptiveParams(Statistics).MutationRate
    /\ CrossoverRate' = updateAdaptiveParams(Statistics).CrossoverRate
    /\ pc' = StepAfter("elite")
    /\ UNCHANGED <<Statistics, History, Generations, ElitismCount, NumParallelEvals,
                   TermCondition, condState, callerVars,
                   gen, bestIndividual, bestFitness, selectedIndividuals, offspring,
                   callVars, progressVars, preGen, poolVars, termVars>>

\* "Store elite individuals if elitism is enabled"
CaptureElites ==
    /\ pc = "elite"
    /\ IF ElitismCount > 0
       THEN \E sorted \in SortedOrders(heap, Individuals) :
              LET clones == ElitesOf(heap, sorted, ElitismCount)
              IN  /\ Individuals' = sorted
                  /\ heap' = heap \o clones
                  /\ elites' = [i \in 1..Len(clones) |-> Len(heap) + i]
       ELSE UNCHANGED <<Individuals, heap, elites>>
    /\ IF AdaptiveParams
       THEN /\ MutationRate' = updateAdaptiveParams(Statistics).MutationRate
            /\ CrossoverRate' = updateAdaptiveParams(Statistics).CrossoverRate
       ELSE UNCHANGED <<MutationRate, CrossoverRate>>
    /\ pc' = StepAfter("elite")
    /\ UNCHANGED <<Statistics, History, Generations, ElitismCount, NumParallelEvals,
                   TermCondition, condState, callerVars,
                   gen, bestIndividual, bestFitness, selectedIndividuals, offspring,
                   callVars, progressVars, preGen, poolVars, termVars>>

\* ga.evaluatePopulationInParallel(offspring, evaluatePhenotype)
EvaluateOffspring ==
    /\ pc = "eval"
    /\ LET r == evaluatePopulationInParallel(heap, offspring, NumParallelEvals, evalFail)
       IN  IF r.panic
           THEN /\ Panics("evaluator")
                /\ Unwinds(r.heap, Individuals)
           ELSE /\ heap' = r.heap
                /\ pc' = StepAfter("eval")
                /\ UNCHANGED <<Individuals, runVars, callVars>>
    /\ UNCHANGED <<Statistics, History, Generations, ElitismCount, NumParallelEvals,
                   MutationRate, CrossoverRate, TermCondition, condState, callerVars,
                   progressVars, preGen, poolVars, termVars>>

\* A generation that drops its elites.
ReinsertMutant(inds, elite, i) == inds

\* "Reinsert elite individuals if elitism is enabled"
RECURSIVE Reinsert(_, _, _)
Reinsert(inds, elite, i) ==
    IF i > Len(elite) THEN inds
    ELSE Reinsert(IF i - 1 < Len(inds) THEN Replace(inds, i - 1, elite[i]) ELSE inds,
                  elite, i + 1)

\* From "Create new population" to "Add current statistics to history".
FinishGeneration ==
    /\ pc = "finish"
    /\ LET inds == IF ElitismCount > 0 THEN Reinsert(offspring, elites, 1)
                   ELSE offspring
       IN  IF HasNil(heap, inds)
           THEN \* CalculateStatistics dereferences a nil Phenotype
                /\ Panics("nil phenotype")
                /\ Unwinds(heap, inds)
                /\ UNCHANGED <<Statistics, History, progressVars>>
           ELSE LET stats == CalculateStatistics(heap, inds, Statistics)
                    currentBest == FindBestIndividual(heap, inds)
                    better == Fit(heap, currentBest) > bestFitness
                    best == IF better THEN currentBest ELSE bestIndividual
                    c == Compact(heap, inds \o <<best>>)
                IN  /\ Statistics' = stats
                    /\ History' = AppendHistory(History, stats)
                    /\ bestFitness' = IF better THEN Fit(heap, currentBest)
                                      ELSE bestFitness
                    /\ heap' = c.heap
                    /\ Individuals' = Renumber(c.map, inds)
                    /\ bestIndividual' = c.map[best]
                    /\ selectedIndividuals' = <<>>
                    /\ offspring' = <<>>
                    /\ elites' = <<>>
                    /\ completed' = completed + 1
                    /\ lastGood' = [population |-> ByValue(heap, inds),
                                    History |-> History']
                    /\ pc' = StepAfter("finish")
                    /\ UNCHANGED <<gen, callVars, runStart, initArgs>>
    /\ UNCHANGED <<Generations, ElitismCount, NumParallelEvals, MutationRate,
                   CrossoverRate, TermCondition, condState, callerVars, preGen,
                   poolVars, termVars>>

View == [BestFitness |-> Statistics.BestFitness, HistoryLen |-> Len(History),
         Diversity |-> Diversity(Statistics)]

\* "Check termination condition after recording statistics", then gen++.
CheckTermination ==
    /\ pc = "term"
    /\ LET r == Evaluate(TermCondition, condState, View)
       IN  IF TermCondition # NoCondition /\ r.res
           THEN /\ condState' = r.st
                /\ pc' = "return"
                /\ UNCHANGED gen
           ELSE /\ condState' = IF TermCondition # NoCondition THEN r.st ELSE condState
                /\ gen' = gen + 1
                /\ pc' = NextIteration(gen + 1)
    /\ termSteps' = termSteps + 1
    /\ preGen' = <<>>
    /\ UNCHANGED <<heap, gaVars, callerVars, bestIndividual, bestFitness,
                   selectedIndividuals, offspring, elites, callVars, progressVars,
                   poolVars, aloneState, termResult, aloneResult, observed>>

\* return bestIndividual, nil
EvolveReturn ==
    /\ pc = "return"
    /\ LET c == Compact(heap, Individuals \o <<bestIndividual>>)
       IN  /\ heap' = c.heap
           /\ Individuals' = Renumber(c.map, Individuals)
           /\ returned' = c.map[bestIndividual]
    /\ Returns("Evolve:ok")
    /\ pc' = "idle"
    /\ gen' = 0
    /\ bestIndividual' = Nil
    /\ bestFitness' = 0
    /\ UNCHANGED <<Statistics, History, Generations, ElitismCount, NumParallelEvals,
                   MutationRate, CrossoverRate, TermCondition, condState, callerVars,
                   selectedIndividuals, offspring, elites, initializedWith,
                   panicCause, progressVars, preGen, poolVars, termVars>>

Next ==
    \/ \E n \in 0..MaxPop : \E genomes \in InitializerOutputs(n) :
          Initialize(n, "present", genomes)
    \/ \E evaluatorIsNil \in BOOLEAN : EvolveStart(evaluatorIsNil)
    \/ Select
    \/ Crossover
    \/ Mutation
    \/ CaptureElites
    \/ EvaluateOffspring
    \/ FinishGeneration
    \/ CheckTermination
    \/ EvolveReturn

Spec == Init /\ [][Next]_vars

\* Initialize alone, on engines configured in every way.
InitInitialize ==
    /\ Generations \in AnyGenerationsInputs
    /\ ElitismCount \in ElitismInputs
    /\ NumParallelEvals \in ParallelInputs
    /\ \E rates \in AnyRateInputs :
          /\ MutationRate = rates[1]
          /\ CrossoverRate = rates[2]
    /\ TermCondition = NoCondition
    /\ evalFail \in EvaluatorInputs
    /\ nilOperators \in OperatorInputs
    /\ AdaptiveParams = FALSE
    /\ Unstarted

\* Initialize is called once on the engine as constructed; the genomes
\* matter only when the initializer returns some.
NextInitialize ==
    /\ lastCall = "none"
    /\ pc = "idle"
    /\ \E n \in (-1)..MaxPop : \E collaborators \in CollaboratorInputs :
          \E genomes \in IF collaborators = "present" THEN InitializerOutputs(n)
                          ELSE {[i \in 1..n |-> FailGenome]} :
             Initialize(n, collaborators, genomes)

SpecInitialize == InitInitialize /\ [][NextInitialize]_vars

\* ======================================================= the worker pool
\* evaluatePopulationInParallel(offspring, evaluatePhenotype) step by step:
\* the calling goroutine (poolMain), the workers, and the goroutine that
\* closes results.  The call starts from any population of at most
\* MaxEvalPop slots: slots may be nil and may share an individual.
aroundPool == <<pc, gaVars, condState, callerVars, runVars, callVars, progressVars,
                preGen, termVars>>

NoResult == [index |-> 0, phenotype |-> NilPhenotype, err |-> FALSE]

IdleWorker == [state |-> "idle", res |-> NoResult]

\* Phenotypes the individuals may hold when the call starts: none yet
\* (a child of crossover) or an earlier fitness, here one that no genome
\* evaluates to.
EarlierPhenotypes == {NilPhenotype, <<GenomeLen + 1>>}

InitEval ==
    /\ pc = "eval"
    /\ heap \in UNION {[1..m -> [Genotype : Genomes, Phenotype : {p}]] :
                         m \in 0..MaxEvalPop, p \in EarlierPhenotypes}
    /\ offspring \in UNION {[1..n -> 0..Len(heap)] : n \in 0..MaxEvalPop}
    /\ Dedup(offspring, 1, <<>>) = [i \in 1..Len(heap) |-> i]
    /\ NumParallelEvals \in 1..MaxWorkers
    /\ evalFail \in EvaluatorInputs
    /\ Individuals = <<>>
    /\ Statistics = ZeroStatistics
    /\ History = <<>>
    /\ Generations = 0
    /\ ElitismCount = 0
    /\ MutationRate = DefaultMutationRate
    /\ CrossoverRate = DefaultCrossoverRate
    /\ TermCondition = NeverTerminate
    /\ condState = InitialCondState(TermCondition)
    /\ gen = 0
    /\ bestIndividual = Nil
    /\ bestFitness = 0
    /\ selectedIndividuals = <<>>
    /\ elites = <<>>
    /\ lastCall = "Initialize:ok"
    /\ reinit = FALSE
    /\ returned = Nil
    /\ initializedWith = 0
    /\ panicCause = "none"
    /\ completed = 0
    /\ runStart = 0
    /\ initArgs = NoArgs
    /\ lastGood = NothingYet
    /\ nilOperators = {}
    /\ AdaptiveParams = FALSE
    /\ preGen = <<>>
    /\ PoolIdle
    /\ HarnessIdle

\* The call, up to the start of the workers.
EvalCall ==
    /\ poolMain = "none"
    /\ call0' = heap
    /\ invoked' = [i \in 1..Len(offspring) |-> 0]
    /\ IF Len(offspring) = 0
       THEN /\ poolMain' = "returned"
            /\ workers' = <<>>
       ELSE IF NumParallelEvals <= 1
       THEN /\ poolMain' = "sequential"
            /\ workers' = <<>>
       ELSE /\ poolMain' = "submit"
            /\ workers' = [w \in 1..min(NumParallelEvals, Len(offspring)) |-> IdleWorker]
    /\ UNCHANGED <<heap, aroundPool, jobs, results, jobsClosed, resultsClosed,
                   submitIdx, errorChan, writes>>

\* One iteration of the sequential loop, `for _, ind := range population`.
EvalSequentialStep ==
    /\ poolMain = "sequential"
    /\ IF submitIdx = Len(offspring)
       THEN /\ poolMain' = "returned"
            /\ UNCHANGED <<heap, submitIdx, writes, invoked>>
       ELSE LET i == submitIdx + 1
                r == Evaluator(evalFail, heap[offspring[i]].Genotype)
            IN  IF offspring[i] = Nil
                THEN /\ submitIdx' = i
                     /\ UNCHANGED <<heap, poolMain, writes, invoked>>
                ELSE IF r.panic
                THEN /\ poolMain' = "panicked"
                     /\ invoked' = [invoked EXCEPT ![i] = @ + 1]
                     /\ UNCHANGED <<heap, submitIdx, writes>>
                ELSE /\ heap' = [heap EXCEPT ![offspring[i]].Phenotype = r.phenotype]
                     /\ invoked' = [invoked EXCEPT ![i] = @ + 1]
                     /\ writes' = Append(writes, [index |-> i, phenotype |-> r.phenotype,
                                                  writer |-> "main"])
                     /\ submitIdx' = i
                     /\ UNCHANGED poolMain
    /\ UNCHANGED <<aroundPool, call0, jobs, results, jobsClosed, resultsClosed,
                   workers, errorChan>>

\* One iteration of "Send all individuals to the worker pool".  jobs has
\* room for every slot, so the send never blocks.
SubmitJob ==
    /\ poolMain = "submit"
    /\ submitIdx < Len(offspring)
    /\ submitIdx' = submitIdx + 1
    /\ jobs' = IF offspring[submitIdx + 1] = Nil THEN jobs
               ELSE Append(jobs, [index |-> submitIdx + 1,
                                  individual |-> offspring[submitIdx + 1]])
    /\ UNCHANGED <<heap, aroundPool, call0, results, jobsClosed, resultsClosed,
                   workers, poolMain, errorChan, writes, invoked>>

\* close(jobs) left out of the caller's code.
CloseJobsMutant ==
    /\ poolMain = "submit"
    /\ submitIdx = Len(offspring)
    /\ poolMain' = "collect"
    /\ UNCHANGED <<heap, aroundPool, call0, jobs, results, jobsClosed,
                   resultsClosed, workers, submitIdx, errorChan, writes, invoked>>

\* close(jobs), and the start of the goroutine that waits for the workers.
CloseJobs ==
    /\ poolMain = "submit"
    /\ submitIdx = Len(offspring)
    /\ jobsClosed' = TRUE
    /\ poolMain' = "collect"
    /\ UNCHANGED <<heap, aroundPool, call0, jobs, results, resultsClosed,
                   workers, submitIdx, errorChan, writes, invoked>>

\* A receive that leaves the job in the queue.
WorkerReceiveMutant(w) ==
    /\ w \in DOMAIN workers
    /\ workers[w].state = "idle"
    /\ jobs # <<>>
    /\ workers' = [workers EXCEPT ![w] =
                     [state |-> "evaluate",
                      res |-> [NoResult EXCEPT !.index = Head(jobs).index]]]
    /\ UNCHANGED <<heap, aroundPool, call0, jobs, results, jobsClosed,
                   resultsClosed, poolMain, submitIdx, errorChan, writes, invoked>>

\* case j, ok := <-jobs: a worker takes a job.
WorkerReceive(w) ==
    /\ w \in DOMAIN workers
    /\ workers[w].state = "idle"
    /\ jobs # <<>>
    /\ workers' = [workers EXCEPT ![w] =
                     [state |-> "evaluate",
                      res |-> [NoResult EXCEPT !.index = Head(jobs).index]]]
    /\ jobs' = Tail(jobs)
    /\ UNCHANGED <<heap, aroundPool, call0, results, jobsClosed, resultsClosed,
                   poolMain, submitIdx, errorChan, writes, invoked>>

\* The worker's call of evaluatePhenotype returns or panics, and the panic
\* is recovered.
WorkerEvaluate(w) ==
    /\ w \in DOMAIN workers
    /\ workers[w].state = "evaluate"
    /\ workers' = [workers EXCEPT ![w] =
                     [state |-> "send",
                      res |-> WorkerResult(heap, evalFail, workers[w].res.index,
                                           offspring[workers[w].res.index])]]
    /\ invoked' = [invoked EXCEPT ![workers[w].res.index] = @ + 1]
    /\ UNCHANGED <<heap, aroundPool, call0, jobs, results, jobsClosed,
                   resultsClosed, poolMain, submitIdx, errorChan, writes>>

\* results <- result{...}: results has room for every slot.
WorkerSend(w) ==
    /\ w \in DOMAIN workers
    /\ workers[w].state = "send"
    /\ Len(results) < Len(offspring)
    /\ results' = Append(results, workers[w].res)
    /\ workers' = [workers EXCEPT ![w] = IdleWorker]
    /\ UNCHANGED <<heap, aroundPool, call0, jobs, jobsClosed, resultsClosed,
                   poolMain, submitIdx, errorChan, writes, invoked>>

\* The worker's select: jobs is closed and drained, or the context is done
\* (cancel is deferred to the return of the call).
WorkerExit(w) ==
    /\ w \in DOMAIN workers
    /\ workers[w].state = "idle"
    /\ \/ jobsClosed /\ jobs = <<>>
       \/ poolMain = "returned"
    /\ workers' = [workers EXCEPT ![w] = [state |-> "done", res |-> NoResult]]
    /\ UNCHANGED <<heap, aroundPool, call0, jobs, results, jobsClosed,
                   resultsClosed, poolMain, submitIdx, errorChan, writes, invoked>>

\* go func() { wg.Wait(); close(results) }()
CloseResults ==
    /\ poolMain = "collect"
    /\ ~resultsClosed
    /\ \A w \in DOMAIN workers : workers[w].state = "done"
    /\ resultsClosed' = TRUE
    /\ UNCHANGED <<heap, aroundPool, call0, jobs, results, jobsClosed, workers,
                   poolMain, submitIdx, errorChan, writes, invoked>>

\* One iteration of `for res := range results`.
CollectResult ==
    /\ poolMain = "collect"
    /\ results # <<>>
    /\ LET res == Head(results)
           h == ApplyResult(heap, offspring, res)
       IN  /\ heap' = h
           /\ writes' = Append(writes, [index |-> res.index,
                                        phenotype |-> h[offspring[res.index]].Phenotype,
                                        writer |-> "main"])
           /\ errorChan' = IF res.err THEN errorChan + 1 ELSE errorChan
    /\ results' = Tail(results)
    /\ UNCHANGED <<aroundPool, call0, jobs, jobsClosed, resultsClosed, workers,
                   poolMain, submitIdx, invoked>>

\* results is closed and drained: the errors are logged and the call returns.
EvalReturn ==
    /\ poolMain = "collect"
    /\ results = <<>>
    /\ resultsClosed
    /\ poolMain' = "returned"
    /\ UNCHANGED <<heap, aroundPool, call0, jobs, results, jobsClosed,
                   resultsClosed, workers, submitIdx, errorChan, writes, invoked>>

NextEval ==
    \/ EvalCall
    \/ EvalSequentialStep
    \/ SubmitJob
    \/ CloseJobs
    \/ \E w \in 1..MaxWorkers : WorkerReceive(w)
    \/ \E w \in 1..MaxWorkers : WorkerEvaluate(w)
    \/ \E w \in 1..MaxWorkers : WorkerSend(w)
    \/ \E w \in 1..MaxWorkers : WorkerExit(w)
    \/ CloseResults
    \/ CollectResult
    \/ EvalReturn

SpecEval == InitEval /\ [][NextEval]_vars

\* ================================================ termination, evaluated
\* A composite of two conditions is evaluated on the engine as its
\* generations pass; beside it, an instance of each member of its own is
\* evaluated alone on the same engine states (aloneState, aloneResult).
aroundTerm == <<pc, heap, Individuals, Generations, ElitismCount, NumParallelEvals,
                MutationRate, CrossoverRate, callerVars, runVars, callVars, progressVars,
                preGen, poolVars>>

\* The conditions a composite is built from.
TermMembers ==
    {GenerationCountTermination(g) : g \in 1..MaxTermSteps}
    \cup {FitnessThresholdTermination(t) : t \in 0..GenomeLen}
    \cup {FitnessStagnationTermination(m) : m \in 1..MaxTermSteps}

\* The statistics of a population whose best fitness is `best`.
StatisticsWithBest(best) ==
    CalculateStatistics(<<[Genotype |-> FailGenome, Phenotype |-> <<best>>]>>,
                        <<1>>, ZeroStatistics)

InitTerm ==
    /\ pc = "term"
    /\ TermCondition \in {NewCompositeTermination(operator, <<a, b>>) :
                            operator \in {"Any", "All"},
                            a \in TermMembers, b \in TermMembers}
    /\ condState = InitialCondState(TermCondition)
    /\ aloneState = InitialCondState(TermCondition)
    /\ aloneResult = [i \in 1..Len(TermCondition.conditions) |-> FALSE]
    /\ observed = <<>>
    /\ termResult = FALSE
    /\ termSteps = 0
    /\ \E best \in 0..GenomeLen :
          /\ Statistics = StatisticsWithBest(best)
          /\ History = <<Statistics>>
    /\ heap = <<>>
    /\ Individuals = <<>>
    /\ Generations = MaxTermSteps
    /\ ElitismCount = 0
    /\ NumParallelEvals = 1
    /\ MutationRate = DefaultMutationRate
    /\ CrossoverRate = DefaultCrossoverRate
    /\ evalFail = "none"
    /\ gen = 0
    /\ bestIndividual = Nil
    /\ bestFitness = 0
    /\ selectedIndividuals = <<>>
    /\ offspring = <<>>
    /\ elites = <<>>
    /\ lastCall = "Initialize:ok"
    /\ reinit = FALSE
    /\ returned = Nil
    /\ initializedWith = 0
    /\ panicCause = "none"
    /\ completed = 0
    /\ runStart = 0
    /\ initArgs = NoArgs
    /\ lastGood = NothingYet
    /\ nilOperators = {}
    /\ AdaptiveParams = FALSE
    /\ preGen = <<>>
    /\ PoolIdle

\* A generation passes: new statistics, one more History entry.
GenerationPasses(best) ==
    /\ Len(History) <= MaxTermSteps
    /\ Statistics' = StatisticsWithBest(best)
    /\ History' = AppendHistory(History, Statistics')
    /\ UNCHANGED <<aroundTerm, TermCondition, condState, termVars>>

\* ga.TermCondition.Evaluate(ga) on the engine as it stands, and each
\* standalone instance's Evaluate(ga) on the same engine.
TermEvaluate ==
    /\ termSteps < MaxTermSteps
    /\ LET r == Evaluate(TermCondition, condState, View)
           alone == [i \in 1..Len(TermCondition.conditions) |->
                       AtomicEvaluate(TermCondition.conditions[i], aloneState[i], View)]
       IN  /\ termResult' = r.res
           /\ condState' = r.st
           /\ aloneResult' = [i \in DOMAIN alone |-> alone[i].res]
           /\ aloneState' = [i \in DOMAIN alone |-> alone[i].st]
    /\ termSteps' = termSteps + 1
    /\ UNCHANGED <<aroundTerm, TermCondition, Statistics, History, observed>>

NextTerm ==
    \/ \E best \in 0..GenomeLen : GenerationPasses(best)
    \/ TermEvaluate

SpecTerm == InitTerm /\ [][NextTerm]_vars

\* ================================================== claims on the engine
\* An Evolve run is under way or has ended (returned, or panicked inside
\* Evolve).
InEvolve ==
    \/ pc \in {"select", "cross", "mutate", "elite", "eval", "finish", "term", "return"}
    \/ pc = "panicked" /\ panicCause # "Initialize"
    \/ pc = "idle" /\ lastCall = "Evolve:ok"

IsPrefix(s, t) == Len(s) <= Len(t) /\ SubSeq(t, 1, Len(s)) = s

\* C1: throughout an Evolve run started after a successful Initialize,
\* len(History) is the number of generations completed since that Initialize
\* (over consecutive Evolve calls, which share the History) plus 1; a step of
\* the run leaves History as it is or appends exactly one entry, the
\* statistics of the generation just completed, and never removes, reorders
\* or modifies an entry already there.
C1_HistoryLength ==
    /\ [](InEvolve => Len(History) = completed + 1)
    /\ [][(pc # "idle" \/ pc' # "idle") =>
            /\ IsPrefix(History, History')
            /\ Len(History') <= Len(History) + 1
            /\ (completed' # completed =>
                  /\ completed' = completed + 1
                  /\ History' = Append(History, Statistics'))]_vars

\* C1's case: a second Evolve on the same engine has completed every
\* generation asked for, at least one, after those of the first.
C1_Witness ==
    /\ pc = "return"
    /\ Generations >= 1
    /\ completed = 2 * Generations
    /\ Len(History) = completed + 1

\* The orders of 1..Len(records) that rank the records by fitness, fittest
\* first.
Rankings(records) ==
    {p \in Perms(Len(records)) :
        \A i \in 1..(Len(records) - 1) :
            records[p[i]].Phenotype[1] >= records[p[i + 1]].Phenotype[1]}

PopulationGenomes == {heap[Individuals[i]].Genotype : i \in DOMAIN Individuals}

\* C2: with ElitismCount = k > 0, when a generation has completed, the
\* genomes of the k fittest individuals of the population as it was just
\* before that generation's Mutation (for some ranking of equal fitness)
\* are all among the genomes of the resulting population.  Stated for an
\* evaluator that never fails.
C2_ElitesSurvive ==
    (pc = "term" /\ ElitismCount > 0 /\ evalFail = "none") =>
        \E p \in Rankings(preGen) :
            \A j \in 1..min(ElitismCount, Len(preGen)) :
                preGen[p[j]].Genotype \in PopulationGenomes

\* C4: a failure of the evaluator on an individual never makes Evolve
\* panic, whatever NumParallelEvals is: neither the evaluator's own panic
\* nor the nil phenotype it returned ends the run.
C4_FailureContained ==
    ~(pc = "panicked" /\ panicCause \in {"evaluator", "nil phenotype"})

\* C8: when Evolve has returned successfully, the fitness of the individual
\* it returned is the fitness of the best individual of the final
\* population.  Stated for an evaluator that never fails.
C8_ReturnedIsPopulationBest ==
    (pc = "idle" /\ lastCall = "Evolve:ok" /\ evalFail = "none") =>
        Fit(heap, returned) = Fit(heap, FindBestIndividual(heap, Individuals))

\* What C9 promises of the engine after Initialize(n, ...) succeeded.
Initialized(n, h, inds, stats, history) ==
    /\ Len(inds) = n
    /\ \A i \in 1..n : inds[i] # Nil /\ h[inds[i]].Phenotype # NilPhenotype
    /\ stats = CalculateStatistics(h, inds, ZeroStatistics)
    /\ stats.N = n
    /\ history = <<stats>>

\* C9: whenever the last call was a successful Initialize(n, ...), on a
\* fresh engine or on one that has run, n >= 1 and the engine holds exactly
\* n individuals, each with a phenotype, the statistics computed from them,
\* and a History of length 1 holding those statistics.
C9_InitializePostcondition ==
    (pc = "idle" /\ lastCall = "Initialize:ok") =>
        /\ initializedWith >= 1
        /\ Len(History) = 1
        /\ Initialized(initializedWith, heap, Individuals, Statistics, History)

\* C9's case: Initialize succeeded on an engine whose previous run had
\* recorded generations, with the largest population.
C9_Witness ==
    /\ pc = "idle"
    /\ lastCall = "Initialize:ok"
    /\ reinit
    /\ Len(Individuals) = MaxPop
    /\ Len(History) = 1

\* C12: with no termination condition configured, Initialize installs one
\* that is never true, so an Evolve that returns has executed exactly
\* Generations generations, and the first Evolve after Initialize ends with
\* len(History) = Generations + 1.
C12_DefaultNeverTerminates ==
    /\ initializedWith >= 1 => TermCondition # NoCondition
    /\ (pc = "return" /\ TermCondition = NeverTerminate) =>
          /\ gen = Generations
          /\ completed - runStart = Generations
          /\ runStart = 0 => Len(History) = Generations + 1

\* C12's case: an engine configured without a termination condition has run
\* all of its generations, at least one.
C12_Witness ==
    /\ pc = "return"
    /\ TermCondition = NeverTerminate
    /\ Generations >= 1
    /\ runStart = 0
    /\ Len(History) = Generations + 1

\* The best fitness of the population Evolve was called on.
BestAtCall == History[runStart + 1].BestFitness

\* C14: with FitnessThresholdTermination(T) and a population whose best
\* fitness is at least T when Evolve is called, Evolve stops at once (it
\* executes one generation at most, the check coming at a generation's end)
\* and returns with Population.Statistics.BestFitness >= T.
C14_ThresholdAlreadyMet ==
    (/\ pc = "idle" /\ lastCall = "Evolve:ok"
     /\ TermCondition.kind = "FitnessThreshold"
     /\ Generations >= 1
     /\ evalFail = "none"
     /\ BestAtCall >= TermCondition.param) =>
        /\ completed - runStart <= 1
        /\ Statistics.BestFitness >= TermCondition.param

\* C16: when Evolve returns an error (nil evaluator, Selection or Crossover
\* returning an empty slice in generation g), Population and History are as
\* the last completed generation left them: History has g + 1 entries and no
\* individual of the population is replaced or changed.
C16_ErrorLeavesLastGeneration ==
    (pc = "idle" /\ lastCall = "Evolve:error") =>
        /\ ByValue(heap, Individuals) = lastGood.population
        /\ History = lastGood.History
        /\ Len(History) = completed + 1

\* C16's case: Evolve has returned an error after a completed generation.
C16_Witness ==
    /\ pc = "idle"
    /\ lastCall = "Evolve:error"
    /\ completed >= 1
    /\ Len(History) = completed + 1
    /\ ByValue(heap, Individuals) = lastGood.population

\* C18: after a successful Initialize with population size n, ElitismCount
\* is in [0, n] (a negative value has become 0, a value above n has become
\* n, any other is kept), and it stays there in every state of Evolve.
C18_ElitismCountClamped ==
    /\ [](initializedWith >= 1 =>
             (ElitismCount >= 0 /\ ElitismCount <= initializedWith))
    /\ [][(pc = "idle" /\ pc' = "idle" /\ lastCall' = "Initialize:ok") =>
            ElitismCount' = IF ElitismCount < 0 THEN 0
                            ELSE IF ElitismCount > initializedWith'
                                 THEN initializedWith'
                                 ELSE ElitismCount]_vars

\* C18's case: an elitism count configured above the population size has
\* been brought down to the size, and a generation has run since.
C18_Witness ==
    /\ initializedWith = MaxPop
    /\ ElitismCount = MaxPop
    /\ completed >= 1

\* ------------------------------------------- engines that count generations
\* The engine with a generation limit above MaxGenerations and a condition
\* that can stop it before the limit: GenerationCountTermination(n) with n
\* up to the limit, or a fitness threshold.
CountedGenerations == MaxGenerations + 1
CountInputs == {GenerationCountTermination(n) : n \in 1..CountedGenerations}

InitCount ==
    /\ Generations = CountedGenerations
    /\ ElitismCount \in {0, 1}
    /\ NumParallelEvals = 1
    /\ MutationRate \in MutationRateInputs
    /\ CrossoverRate \in CrossoverRateInputs
    /\ TermCondition \in CountInputs \cup {FitnessThresholdTermination(GenomeLen)}
    /\ evalFail \in EvaluatorInputs
    /\ nilOperators = {}
    /\ AdaptiveParams = FALSE
    /\ Unstarted

SpecCount == InitCount /\ [][Next]_vars

\* C13: with GenerationCountTermination(N) and Generations >= N, the Evolve
\* that follows Initialize stops after exactly N generations.
C13_StopsAfterNGenerations ==
    (/\ pc = "return"
     /\ TermCondition.kind = "GenerationCount"
     /\ Generations >= TermCondition.param
     /\ runStart = 0) =>
        completed = TermCondition.param

\* --------------------------------- engines with a stagnation condition
\* The engine with a stateful termination condition, initialised and
\* evolved more than once with the same condition instance.
InitRerun ==
    /\ Generations = MaxGenerations
    /\ ElitismCount = 0
    /\ NumParallelEvals = 1
    /\ MutationRate \in MutationRateInputs
    /\ CrossoverRate \in CrossoverRateInputs
    /\ TermCondition \in {FitnessStagnationTermination(1),
                          DiversityStagnationTermination(1)}
    /\ evalFail = "none"
    /\ nilOperators = {}
    /\ AdaptiveParams = FALSE
    /\ Unstarted

\* The runs go on as long as the condition's stagnation count is within
\* MaxTermSteps.
NextRerun ==
    /\ \A i \in DOMAIN condState : condState[i].count <= MaxTermSteps
    /\ Next

SpecRerun == InitRerun /\ [][NextRerun]_vars

\* What a condition sees of the engine at the check that followed the k-th
\* History entry.
ViewAt(k) ==
    [BestFitness |-> History[k].BestFitness, HistoryLen |-> k,
     Diversity |-> Diversity(History[k])]

\* The closure variables of a newly constructed instance of TermCondition
\* after the checks that followed History entries 2..k.
RECURSIVE FreshStateAfter(_)
FreshStateAfter(k) ==
    IF k <= 1 THEN InitialCondState(TermCondition)
    ELSE Evaluate(TermCondition, FreshStateAfter(k - 1), ViewAt(k)).st

\* C39: in the Evolve that follows an Initialize, each termination check of
\* a stagnation condition answers what a newly constructed instance of the
\* condition would answer after the same statistics of this run, also when
\* the instance has been through an earlier run on this engine.
C39_EveryRunStartsFresh ==
    (pc = "term" /\ runStart = 0 /\ TermCondition.kind # "Never") =>
        Evaluate(TermCondition, condState, View).res =
            Evaluate(TermCondition, FreshStateAfter(Len(History) - 1), View).res

\* ------------------------------------------------------ adaptive engines
\* The engine with AdaptiveParams set, under an evaluator of finite fitness
\* values and under one that returns +Inf for a genome.
InitAdaptive ==
    /\ Generations = MaxGenerations
    /\ ElitismCount \in {0, 1}
    /\ NumParallelEvals = 1
    /\ MutationRate \in MutationRateInputs
    /\ CrossoverRate \in CrossoverRateInputs
    /\ TermCondition = NoCondition
    /\ evalFail \in {"none", "infinite"}
    /\ nilOperators = {}
    /\ AdaptiveParams = TRUE
    /\ Unstarted

SpecAdaptive == InitAdaptive /\ [][Next]_vars

\* C19: with AdaptiveParams enabled, after every generation MutationRate is
\* in [0.01, 0.5] and CrossoverRate is in [0.1, 0.95], whatever the
\* diversity of the population.
C19_AdaptiveRatesInRange ==
    (pc = "term" /\ AdaptiveParams) =>
        /\ MutationRate >= MinMutationRate /\ MutationRate <= MaxMutationRate
        /\ CrossoverRate >= MinCrossoverRate /\ CrossoverRate <= MaxCrossoverRate

\* ------------------------------------------------ the order of the steps
\* The place of a step in a generation: Selection 1, ..., termination
\* check 7, and 0 outside the loop's body.
Place(step) ==
    CASE step = "select" -> 1 [] step = "cross" -> 2 [] step = "mutate" -> 3
      [] step = "elite" -> 4 [] step = "eval" -> 5 [] step = "finish" -> 6
      [] step = "term" -> 7 [] OTHER -> 0

\* The genomes of the offspring, slot by slot.
OffspringGenomes(h, offs) ==
    [i \in 1..Len(offs) |-> IF offs[i] = Nil THEN <<>> ELSE h[offs[i]].Genotype]

\* C25: within every generation of Evolve the steps come in this order,
\* each finished before the next starts: Selection, Crossover, Mutation,
\* elite snapshot, adaptive rate update, evaluation of the offspring,
\* replacement of the population, elite reinsertion, statistics, History
\* append, termination check; and a generation starts only when the
\* previous one is over.  So the offspring are evaluated as Mutation left
\* them, the rates are updated from the previous generation's statistics
\* after Mutation and before the evaluation, the statistics and the last
\* History entry are those of the population after replacement and
\* reinsertion when the termination check comes, and gen advances only then.
C25_StepOrder ==
    /\ [][pc' # pc =>
            \/ Place(pc) >= 1 /\ Place(pc) < 7 /\ Place(pc') = Place(pc) + 1
            \/ Place(pc) >= 1 /\ pc' \in {"idle", "panicked"}
            \/ pc \in {"idle", "term"} /\ pc' \in {"select", "return"}
            \/ pc = "idle" /\ pc' = "panicked"
            \/ pc = "return" /\ pc' = "idle"]_vars
    /\ [][(Place(pc) \in {4, 5} /\ Place(pc') \in {5, 6}) =>
            OffspringGenomes(heap', offspring) = OffspringGenomes(heap, offspring)]_vars
    /\ []((pc = "finish" /\ evalFail \in {"none", "infinite"}) =>
            \A i \in 1..Len(offspring) :
                heap[offspring[i]].Phenotype =
                    Evaluator(evalFail, heap[offspring[i]].Genotype).phenotype)
    /\ [][<<MutationRate, CrossoverRate>>' # <<MutationRate, CrossoverRate>> =>
            \/ pc = "idle"
            \/ /\ pc = "elite" /\ AdaptiveParams
               /\ MutationRate' = updateAdaptiveParams(Statistics).MutationRate
               /\ CrossoverRate' = updateAdaptiveParams(Statistics).CrossoverRate]_vars
    /\ [][<<Statistics, History>>' # <<Statistics, History>> =>
            pc \in {"idle", "finish"}]_vars
    /\ [](pc = "term" =>
            /\ Statistics = CalculateStatistics(heap, Individuals, ZeroStatistics)
            /\ History[Len(History)] = Statistics
            /\ Len(History) = completed + 1)
    /\ [][gen' # gen =>
            \/ pc = "term" /\ gen' = gen + 1
            \/ pc' = "idle" \/ pc = "idle"]_vars

\* C25's case: with adaptive rates and an elite, a second generation has
\* reached its termination check.
C25_Witness ==
    /\ pc = "term"
    /\ AdaptiveParams
    /\ ElitismCount = 1
    /\ completed = MaxGenerations
    /\ Len(History) = completed + 1

FailedEvaluation(h, r) ==
    \/ Evaluator(evalFail, h[r].Genotype).panic
    \/ Evaluator(evalFail, h[r].Genotype).phenotype = NilPhenotype

\* The evaluation of the offspring is over, some of them failed and at
\* least one succeeded.
MixedEvaluation ==
    /\ pc = "finish"
    /\ \A i \in DOMAIN offspring : offspring[i] # Nil
    /\ \E i \in DOMAIN offspring : FailedEvaluation(heap, offspring[i])
    /\ \E i \in DOMAIN offspring : ~FailedEvaluation(heap, offspring[i])

\* C30: when a generation in which some evaluations failed and at least one
\* succeeded is closed, the best individual of the population
\* (GetBestIndividual), Statistics.BestFitness and the running best of
\* Evolve are not those of an individual whose evaluation failed.
C30_BestNeverFailed ==
    [][(MixedEvaluation /\ pc' = "term") =>
          /\ ~FailedEvaluation(heap', FindBestIndividual(heap', Individuals'))
          /\ Statistics'.BestFitness # SentinelFitness
          /\ ~FailedEvaluation(heap', bestIndividual')]_vars

\* The two rates of the engine.
Rates == <<MutationRate, CrossoverRate>>

\* The rates updateAdaptiveParams leaves for the current statistics.
AdaptedRates ==
    <<updateAdaptiveParams(Statistics).MutationRate,
      updateAdaptiveParams(Statistics).CrossoverRate>>

\* C32: inside Evolve the rates change in no step but the adaptive update,
\* which comes once in a generation, between Mutation and the evaluation,
\* and only with AdaptiveParams set; there it leaves the rates
\* updateAdaptiveParams computes from the statistics of the population.
\* With AdaptiveParams off no step of Evolve changes a rate, so the rates
\* at every return of Evolve are those Initialize left.
C32_RatesOnlyAdaptive ==
    /\ [][(pc # "idle" /\ Rates' # Rates) =>
             (pc = "elite" /\ pc' = "eval" /\ AdaptiveParams)]_vars
    /\ [][(pc = "elite" /\ pc' = "eval") =>
             Rates' = IF AdaptiveParams THEN AdaptedRates ELSE Rates]_vars
    /\ [][(pc = "idle" /\ Rates' # Rates) =>
             (lastCall' = "Initialize:ok" /\ pc' = "idle")]_vars

\* C32's case: an adaptive Evolve has returned after a generation whose
\* update moved both rates away from the configured ones.
C32_Witness ==
    /\ pc = "idle"
    /\ lastCall = "Evolve:ok"
    /\ AdaptiveParams
    /\ completed >= 1
    /\ MutationRate \notin MutationRateInputs
    /\ CrossoverRate \notin CrossoverRateInputs
    /\ Rates = <<updateAdaptiveParams(History[Len(History) - 1]).MutationRate,
                 updateAdaptiveParams(History[Len(History) - 1]).CrossoverRate>>

\* Initialize has succeeded, or a generation of Evolve is complete: its
\* statistics are recorded and nothing of the next one has begun.
AfterGeneration ==
    \/ pc \in {"term", "return"}
    \/ pc = "idle" /\ lastCall \in {"Initialize:ok", "Evolve:ok"}

\* C33: after a successful Initialize and at the end of every generation,
\* Statistics is what CalculateStatistics computes of the individuals now in
\* the population, reinserted elites among them: BestFitness is a fitness
\* present in the population that none exceeds, WorstFitness one that none
\* is below, the sum and the count are theirs; and the last History entry
\* equals Statistics.
C33_StatisticsOfPopulation ==
    AfterGeneration =>
        /\ Individuals # <<>>
        /\ ~HasNil(heap, Individuals)
        /\ Statistics = CalculateStatistics(heap, Individuals, ZeroStatistics)
        /\ \A i \in DOMAIN Individuals :
              /\ Fit(heap, Individuals[i]) <= Statistics.BestFitness
              /\ Fit(heap, Individuals[i]) >= Statistics.WorstFitness
        /\ \E i \in DOMAIN Individuals : Fit(heap, Individuals[i]) = Statistics.BestFitness
        /\ \E i \in DOMAIN Individuals : Fit(heap, Individuals[i]) = Statistics.WorstFitness
        /\ Statistics.N = Len(Individuals)
        /\ History # <<>>
        /\ History[Len(History)] = Statistics

\* C33's case: a generation with an elite is complete; the reinserted elite
\* alone carries the best fitness of the population, which is the one the
\* statistics and the last History entry record.
C33_Witness ==
    /\ pc = "term"
    /\ ElitismCount >= 1
    /\ completed >= 1
    /\ Len(Individuals) >= 2
    /\ Fit(heap, Individuals[1]) = Statistics.BestFitness
    /\ \A i \in 2..Len(Individuals) : Fit(heap, Individuals[i]) < Statistics.BestFitness
    /\ History[Len(History)].BestFitness = History[Len(History) - 1].BestFitness
    /\ History[Len(History)].WorstFitness < History[Len(History) - 1].WorstFitness

\* C34: under an evaluator that never fails, when a generation is complete
\* every individual of the population, offspring and reinserted elite
\* alike, holds the fitness the evaluator gives for the genome it has now.
C34_FitnessIsOfGenome ==
    (pc \in {"term", "return"} /\ completed >= 1 /\ evalFail = "none") =>
        \A i \in DOMAIN Individuals :
            heap[Individuals[i]].Phenotype =
                Evaluator(evalFail, heap[Individuals[i]].Genotype).phenotype

\* The BestFitness values History holds for the run that just returned:
\* that of the population Evolve started from and one per generation.
RecordedInRun == {History[k].BestFitness : k \in (runStart + 1)..Len(History)}

\* C35: under an evaluator that never fails, when Evolve has returned, the
\* fitness of the individual it returned is the greatest BestFitness
\* recorded during the run and is the evaluator's value for the genome the
\* individual has.
C35_ReturnedIsBestOfRun ==
    (pc = "idle" /\ lastCall = "Evolve:ok" /\ evalFail = "none") =>
        /\ Fit(heap, returned) \in RecordedInRun
        /\ \A f \in RecordedInRun : f <= Fit(heap, returned)
        /\ heap[returned].Phenotype =
               Evaluator(evalFail, heap[returned].Genotype).phenotype

\* C36: with ElitismCount >= 1, the BestFitness values History holds never
\* decrease from one entry to the next, whatever the evaluator does.
C36_BestFitnessMonotone ==
    ElitismCount >= 1 =>
        \A k \in 1..(Len(History) - 1) :
            History[k].BestFitness <= History[k + 1].BestFitness

\* C36's case: two generations with an elite have passed; every offspring
\* of the last one is worse than the best of the start, which History still
\* records as the best.
C36_Witness ==
    /\ pc = "term"
    /\ ElitismCount >= 1
    /\ elites = <<>>
    /\ Len(History) = 3
    /\ History[3].BestFitness = History[1].BestFitness
    /\ \A i \in 2..Len(Individuals) :
          Fit(heap, Individuals[i]) < History[1].BestFitness
    /\ Len(Individuals) >= 2

\* C37: for every population size, odd sizes and 1 among them, the
\* offspring the crossover hands to Mutation has the population's length
\* and an individual in every slot, and Evolve does not panic on a nil
\* individual.
C37_NoNilOffspring ==
    /\ pc \in {"mutate", "elite", "eval", "finish"} =>
          /\ Len(offspring) = Len(Individuals)
          /\ \A i \in DOMAIN offspring : offspring[i] # Nil
    /\ ~(pc = "panicked" /\ panicCause = "nil individual")

\* ================================================ claims on Initialize
\* The call Initialize was given what it validates up front: a positive
\* size, an initializer and an evaluator.
ValidArgs ==
    /\ initArgs.populationSize >= 1
    /\ initArgs.collaborators \notin {"nil initializer", "nil evaluator"}

\* C15: Initialize returns an error, and does not panic, whenever
\* populationSize <= 0, the initializer or the evaluator is nil, or one of
\* Selection, Crossover and Mutation is nil; it returns nil for every
\* populationSize >= 1 when all of them are present.
C15_InitializeValidates ==
    initArgs # NoArgs =>
        /\ (~ValidArgs \/ nilOperators # {}) =>
              (pc = "idle" /\ lastCall = "Initialize:error")
        /\ (ValidArgs /\ nilOperators = {}) =>
              (pc = "idle" /\ lastCall = "Initialize:ok")

\* C17: after a successful Initialize both rates are in (0, 1]: a configured
\* rate in that range is kept, any other (<= 0 or > 1) is replaced by its
\* default, 0.1 for mutation and 0.8 for crossover, without an error.
C17_RatesValidated ==
    /\ [](lastCall = "Initialize:ok" =>
             /\ MutationRate > 0 /\ MutationRate <= 1000
             /\ CrossoverRate > 0 /\ CrossoverRate <= 1000)
    /\ [][lastCall' = "Initialize:ok" =>
            /\ MutationRate' = IF MutationRate > 0 /\ MutationRate <= 1000
                                THEN MutationRate ELSE 100
            /\ CrossoverRate' = IF CrossoverRate > 0 /\ CrossoverRate <= 1000
                                 THEN CrossoverRate ELSE 800]_vars

\* C17's case: Initialize has succeeded on a crossover rate above 1, now
\* the default, and on a mutation rate of exactly 1, kept.
C17_Witness ==
    /\ lastCall = "Initialize:ok"
    /\ MutationRate = 1000
    /\ CrossoverRate = DefaultCrossoverRate

\* C38: a call of Initialize that returns an error leaves the population,
\* History, ElitismCount and NumParallelEvals as they were before the call,
\* whichever check failed.
C38_InitializeErrorChangesNothing ==
    [][(pc = "idle" /\ lastCall' = "Initialize:error") =>
          /\ ByValue(heap', Individuals') = ByValue(heap, Individuals)
          /\ History' = History
          /\ ElitismCount' = ElitismCount
          /\ NumParallelEvals' = NumParallelEvals]_vars

\* ============================================= claims on the worker pool
\* The slots that hold an individual.
Slots == {i \in DOMAIN offspring : offspring[i] # Nil}

\* What the evaluator does with the genome slot i held when the call began.
Evaluated(i) == Evaluator(evalFail, call0[offspring[i]].Genotype)

Fails(i) == Evaluated(i).panic \/ Evaluated(i).phenotype = NilPhenotype

\* What slot i must hold after a call that isolates failures.
Expected(i) == IF Fails(i) THEN <<SentinelFitness>> ELSE Evaluated(i).phenotype

PoolReturned == poolMain = "returned" /\ NumParallelEvals > 1 /\ Len(offspring) > 0

\* C3: with NumParallelEvals > 1, when the call has returned, every slot
\* whose evaluation failed (panic or nil phenotype) holds the sentinel
\* fitness and every other slot holds the phenotype the evaluator computed
\* for its genome; and a worker leaves its loop only when jobs is closed and
\* drained, so a failure stops no worker while jobs remain.
C3_FailureIsolation ==
    /\ PoolReturned =>
          \A i \in Slots : heap[offspring[i]].Phenotype = Expected(i)
    /\ NumParallelEvals > 1 =>
          \A w \in DOMAIN workers :
              workers[w].state = "done" => jobsClosed /\ jobs = <<>>

\* C3's case: the pool has returned from a population in which one slot's
\* evaluation failed and another's did not.
C3_Witness ==
    /\ PoolReturned
    /\ \E i, j \in Slots :
          /\ Fails(i) /\ heap[offspring[i]].Phenotype = <<SentinelFitness>>
          /\ ~Fails(j) /\ heap[offspring[j]].Phenotype = Evaluated(j).phenotype
    /\ errorChan >= 1

\* C5: whenever evaluatePopulationInParallel has returned, whatever
\* NumParallelEvals is, every individual of the population holds a non-nil
\* Phenotype that this call assigned.
C5_CompletionContract ==
    poolMain = "returned" =>
        \A i \in Slots :
            /\ heap[offspring[i]].Phenotype # NilPhenotype
            /\ \E k \in DOMAIN writes : writes[k].index = i

\* C6: a call with NumParallelEvals > 1 that has returned leaves on every
\* individual the phenotype the sequential path leaves on it for the same
\* population and the same deterministic evaluator, whenever the sequential
\* path runs to its end.
C6_ParallelEqualsSequential ==
    PoolReturned =>
        LET s == EvaluateSequentially(call0, offspring, evalFail, 1)
        IN  ~s.panic =>
                \A i \in Slots :
                    heap[offspring[i]].Phenotype = s.heap[offspring[i]].Phenotype

\* C7: with NumParallelEvals > 1, at every moment of the call each write
\* made so far put into slot i the result computed from the genome of
\* slot i, no slot has been written twice, and every write is the calling
\* goroutine's; when the call has returned every slot has been written
\* exactly once.
C7_IndexAddressedWrites ==
    (NumParallelEvals > 1 /\ poolMain # "none") =>
        /\ \A k \in DOMAIN writes :
              /\ writes[k].index \in Slots
              /\ writes[k].phenotype = Expected(writes[k].index)
              /\ writes[k].writer = "main"
              /\ \A l \in DOMAIN writes : writes[l].index = writes[k].index => l = k
        /\ poolMain = "returned" =>
              \A i \in Slots : \E k \in DOMAIN writes : writes[k].index = i

\* C7's case: the results came back in another order than the slots, from
\* genomes with different results, and each went to its own slot.
C7_Witness ==
    /\ PoolReturned
    /\ Len(writes) >= 2
    /\ writes[1].index > writes[2].index
    /\ writes[1].phenotype # writes[2].phenotype
    /\ \A k \in DOMAIN writes :
          heap[offspring[writes[k].index]].Phenotype = writes[k].phenotype

\* ------------------------------------------ the pool, scheduled fairly
\* The steps of the calling goroutine inside evaluatePopulationInParallel.
MainSteps ==
    \/ EvalCall
    \/ EvalSequentialStep
    \/ SubmitJob
    \/ CloseJobs
    \/ CollectResult
    \/ EvalReturn

\* The steps of worker w: `go func() { defer wg.Done(); for { select ... } }`.
WorkerSteps(w) ==
    \/ WorkerReceive(w)
    \/ WorkerEvaluate(w)
    \/ WorkerSend(w)
    \/ WorkerExit(w)

\* The Go scheduler runs every goroutine that can run: the caller, each
\* worker, and the goroutine that waits for the workers.  A step of
\* WorkerEvaluate is an evaluator call coming back, by return or by panic.
SpecEvalFair ==
    /\ SpecEval
    /\ WF_vars(MainSteps)
    /\ \A w \in 1..MaxWorkers : WF_vars(WorkerSteps(w))
    /\ WF_vars(CloseResults)

WorkerRunning(w) == workers[w].state # "done"

\* C27: under fair scheduling a call that started its workers returns, and
\* every call comes to its end (the sequential loop, which has no workers,
\* ends by returning or by the evaluator's panic); a worker exits only when
\* jobs is closed and empty, results is closed only when every worker has
\* exited, and when the call has returned no worker is running.
C27_PoolAlwaysReturns ==
    /\ (poolMain \in {"submit", "collect"}) ~> (poolMain = "returned")
    /\ <>(poolMain \in {"returned", "panicked"})
    /\ [](poolMain = "panicked" => NumParallelEvals <= 1)
    /\ [][\A w \in DOMAIN workers :
            (w \in DOMAIN workers' /\ WorkerRunning(w) /\ ~WorkerRunning(w)')
                => jobsClosed /\ jobs = <<>>]_vars
    /\ [](resultsClosed => \A w \in DOMAIN workers : ~WorkerRunning(w))
    /\ [](poolMain = "returned" => \A w \in DOMAIN workers : ~WorkerRunning(w))

\* C27's case: a call with two workers has returned after one of them
\* recovered from a panic, everything written, both workers gone.
C27_Witness ==
    /\ poolMain = "returned"
    /\ Len(workers) >= 2
    /\ errorChan >= 1
    /\ Len(writes) = Len(offspring)
    /\ resultsClosed
    /\ \A w \in DOMAIN workers : ~WorkerRunning(w)

\* The workers that hold a job: received, and its result not yet sent.
Holding == {w \in DOMAIN workers : workers[w].state \in {"evaluate", "send"}}

\* C28: in a call of evaluatePopulationInParallel the evaluator is never
\* called twice for a slot and never for an empty slot; no two workers hold
\* the same job, and a worker's job has been evaluated exactly when the
\* worker is about to send; the sequential loop has called it once for each
\* slot it has passed and for no other; and when the call has returned,
\* sequential or parallel, it has been called exactly once for every slot
\* that holds an individual.
C28_OncePerSlot ==
    poolMain # "none" =>
        /\ DOMAIN invoked = DOMAIN offspring
        /\ \A i \in DOMAIN offspring :
              /\ invoked[i] <= 1
              /\ offspring[i] = Nil => invoked[i] = 0
        /\ \A w \in Holding :
              /\ workers[w].res.index \in Slots
              /\ invoked[workers[w].res.index] =
                     IF workers[w].state = "send" THEN 1 ELSE 0
              /\ \A v \in Holding :
                    workers[v].res.index = workers[w].res.index => v = w
        /\ poolMain = "sequential" =>
              \A i \in Slots : invoked[i] = IF i <= submitIdx THEN 1 ELSE 0
        /\ poolMain = "returned" => \A i \in Slots : invoked[i] = 1

\* C28's case: a parallel call over at least two slots, two of them holding
\* the same individual, has returned with one call of the evaluator for each.
C28_Witness ==
    /\ PoolReturned
    /\ Len(offspring) >= 2
    /\ Len(workers) >= 2
    /\ offspring[1] # Nil
    /\ offspring[1] = offspring[2]
    /\ \A i \in DOMAIN offspring : invoked[i] = 1

\* The evaluator calls in progress: received by a worker and not yet back.
InProgress == {w \in DOMAIN workers : workers[w].state = "evaluate"}

\* The number of workers a parallel call starts.
numWorkers ==
    IF NumParallelEvals < Len(offspring) THEN NumParallelEvals ELSE Len(offspring)

aroundComposite == <<pc, heap, Individuals, Generations, ElitismCount,
                     NumParallelEvals, MutationRate, CrossoverRate, callerVars,
                     runVars, reinit, returned, initializedWith, panicCause,
                     progressVars, preGen, poolVars, aloneState, aloneResult,
                     observed>>

CompositeMembers ==
    {NoCondition, GenerationCountTermination(MaxTermSteps),
     FitnessThresholdTermination(GenomeLen), FitnessStagnationTermination(MaxTermSteps - 1),
     DiversityStagnationTermination(1)}

\* The engine a condition is evaluated on, apart from its Statistics and
\* History: initialised, not evolving.
EngineAtRest ==
    /\ pc = "term"
    /\ heap = <<>>
    /\ Individuals = <<>>
    /\ Generations = MaxTermSteps
    /\ ElitismCount = 0
    /\ NumParallelEvals = 1
    /\ MutationRate = DefaultMutationRate
    /\ CrossoverRate = DefaultCrossoverRate
    /\ evalFail = "none"
    /\ gen = 0
    /\ bestIndividual = Nil
    /\ bestFitness = 0
    /\ selectedIndividuals = <<>>
    /\ offspring = <<>>
    /\ elites = <<>>
    /\ lastCall = "Initialize:ok"
    /\ reinit = FALSE
    /\ returned = Nil
    /\ initializedWith = 0
    /\ panicCause = "none"
    /\ completed = 0
    /\ runStart = 0
    /\ initArgs = NoArgs
    /\ lastGood = NothingYet
    /\ nilOperators = {}
    /\ AdaptiveParams = FALSE
    /\ preGen = <<>>
    /\ PoolIdle

InitComposite ==
    /\ \E operator \in {"Any", "All"} :
       \E conditions \in UNION {[1..n -> CompositeMembers] : n \in 0..MaxConditions} :
          TermCondition = NewCompositeTermination(operator, conditions)
    /\ condState = InitialCondState(TermCondition)
    /\ aloneState = <<>>
    /\ aloneResult = <<>>
    /\ observed = <<>>
    /\ termResult = FALSE
    /\ termSteps = 0
    /\ \E best \in 0..GenomeLen :
          /\ Statistics = StatisticsWithBest(best)
          /\ History = <<Statistics>>
    /\ EngineAtRest

\* composite.AddCondition(condition); the composites of the model hold at
\* most MaxConditions conditions.
CompositeAdd(condition) ==
    /\ Len(TermCondition.conditions) < MaxConditions
    /\ TermCondition' = AddCondition(TermCondition, condition)
    /\ condState' = IF condition.kind = "nil" THEN condState
                    ELSE Append(condState, FreshStateOf(condition))
    /\ lastCall' = "AddCondition"
    /\ UNCHANGED <<aroundComposite, Statistics, History, termResult, termSteps>>

\* composite.RemoveCondition(index)
CompositeRemove(index) ==
    /\ TermCondition' = RemoveCondition(TermCondition, index)
    /\ condState' = IF index < 0 \/ index >= Len(condState) THEN condState
                    ELSE Without(condState, index)
    /\ lastCall' = "RemoveCondition"
    /\ UNCHANGED <<aroundComposite, Statistics, History, termResult, termSteps>>

\* composite.SetOperator(operator)
CompositeSetOperator(operator) ==
    /\ TermCondition' = SetOperator(TermCondition, operator)
    /\ lastCall' = "SetOperator"
    /\ UNCHANGED <<aroundComposite, condState, Statistics, History, termResult,
                   termSteps>>

\* composite.Evaluate(ga), ga the engine or nil.
CompositeCall(gaIsNil) ==
    /\ termSteps < MaxTermSteps
    /\ LET r == Evaluate(TermCondition, condState, IF gaIsNil THEN NilGA ELSE View)
       IN  /\ termResult' = r.res
           /\ condState' = r.st
    /\ termSteps' = termSteps + 1
    /\ lastCall' = IF gaIsNil THEN "Evaluate:nil" ELSE "Evaluate:ga"
    /\ UNCHANGED <<aroundComposite, TermCondition, Statistics, History>>

NextComposite ==
    \/ \E condition \in CompositeMembers : CompositeAdd(condition)
    \/ \E index \in (-1)..MaxConditions : CompositeRemove(index)
    \/ \E operator \in {"Any", "All"} : CompositeSetOperator(operator)
    \/ \E gaIsNil \in BOOLEAN : CompositeCall(gaIsNil)

SpecComposite == InitComposite /\ [][NextComposite]_vars

\* ================================================= stagnation, evaluated
\* One FitnessStagnationTermination(generations) is evaluated on the engine
\* as its generations pass; the population's best fitness may be negative.
aroundStagnation == <<aroundTerm, TermCondition, aloneState, aloneResult>>

FitnessValues == (-MaxLoss)..GenomeLen

InitStagnation ==
    /\ TermCondition \in
          {FitnessStagnationTermination(generations) :
              generations \in (-1)..MaxTermSteps}
    /\ condState = InitialCondState(TermCondition)
    /\ aloneState = <<>>
    /\ aloneResult = <<>>
    /\ observed = <<>>
    /\ termResult = FALSE
    /\ termSteps = 0
    /\ \E best \in FitnessValues :
          /\ Statistics = StatisticsWithBest(best)
          /\ History = <<Statistics>>
    /\ EngineAtRest

\* A generation passes: new statistics, none recorded in History here.
StagnationGeneration(best) ==
    /\ Statistics' = StatisticsWithBest(best)
    /\ UNCHANGED <<aroundStagnation, History, condState, termResult, termSteps,
                   observed>>

\* ga.TermCondition.Evaluate(ga)
StagnationCall ==
    /\ termSteps < MaxTermSteps
    /\ LET r == Evaluate(TermCondition, condState, View)
       IN  /\ termResult' = r.res
           /\ condState' = r.st
    /\ observed' = Append(observed, View.BestFitness)
    /\ termSteps' = termSteps + 1
    /\ UNCHANGED <<aroundStagnation, Statistics, History>>

NextStagnation ==
    \/ \E best \in FitnessValues : StagnationGeneration(best)
    \/ StagnationCall

SpecStagnation == InitStagnation /\ [][NextStagnation]_vars

\* ============================================== claims on termination
\* A or B, A and B, of the results of the members evaluated alone.
Combined(operator, alone) ==
    IF operator = "Any" THEN \E i \in DOMAIN alone : alone[i]
    ELSE \A i \in DOMAIN alone : alone[i]

\* C10 as stated: after any sequence of evaluations, the result of the
\* composite's last Evaluate is "A or B" (OR), "A and B" (AND), of what A
\* and B, each an instance evaluated alone on the same engine states, return
\* on that state, stateful members included.
C10_CompositeIsConnective ==
    termSteps > 0 => termResult = Combined(TermCondition.param, aloneResult)

\* C10, amended: an Evaluate of the composite returns "A or B" (OR), "A and
\* B" (AND), of what A and B evaluated alone return on that state, whenever
\* the composite's members enter the evaluation with the counters the
\* standalone instances hold: always when A and B are stateless, and for a
\* stateful member as long as no earlier evaluation was decided before
\* reaching it.
C10_CompositeIsConnectiveFromEqualCounters ==
    [][(termSteps' = termSteps + 1 /\ condState = aloneState) =>
          termResult' = Combined(TermCondition.param, aloneResult')]_vars

\* C10's case: a composite with a stagnation member, evaluated several
\* times with its counters in step with the standalone instance, fires.
C10_Witness ==
    /\ termSteps >= 2
    /\ \E i \in DOMAIN TermCondition.conditions :
          /\ TermCondition.conditions[i].kind = "FitnessStagnation"
          /\ condState[i].count >= 1
    /\ condState = aloneState
    /\ termResult
    /\ termResult = Combined(TermCondition.param, aloneResult)

\* What member i of the composite returns when it is evaluated now.
MemberNow(i) == AtomicEvaluate(TermCondition.conditions[i], condState[i], View)

\* Member i decides the composite: it is met under OR, not met under AND.
Decides(i) == MemberNow(i).res = (TermCondition.param = "Any")

\* The place where the evaluation stops: the first member that decides,
\* the last member when none does.
StopsAt ==
    LET n == Len(TermCondition.conditions)
        deciding == {i \in 1..n : Decides(i)}
    IN  IF deciding = {} THEN n
        ELSE CHOOSE i \in deciding : \A j \in deciding : i <= j

\* C31: an Evaluate of a composite on an engine evaluates its members in
\* list order up to the first that is met (OR) or not met (AND): every
\* member up to that
\* place has had its Evaluate (its counters are those its own Evaluate
\* leaves), every member after it has not (its counters are unchanged), and
\* the result is true for OR exactly when some member was met, for AND
\* exactly when there are members and none was unmet.
C31_ShortCircuit ==
    [][(termSteps' = termSteps + 1 /\ lastCall' = "Evaluate:ga") =>
          /\ \A i \in DOMAIN TermCondition.conditions :
                condState'[i] = IF i <= StopsAt THEN MemberNow(i).st ELSE condState[i]
          /\ termResult' = IF TermCondition.param = "Any"
                           THEN \E i \in DOMAIN TermCondition.conditions : Decides(i)
                           ELSE /\ TermCondition.conditions # <<>>
                                /\ \A i \in DOMAIN TermCondition.conditions :
                                      ~Decides(i)]_vars

\* C31's case: an OR composite whose first member is met has been
\* evaluated on the engine twice and more; its second member, a diversity
\* stagnation counter that fires at its first evaluation, is as it was
\* constructed.
C31_Witness ==
    /\ termSteps >= 2
    /\ lastCall = "Evaluate:ga"
    /\ TermCondition.param = "Any"
    /\ Len(TermCondition.conditions) = 2
    /\ TermCondition.conditions[1].kind = "FitnessThreshold"
    /\ TermCondition.conditions[2] = DiversityStagnationTermination(1)
    /\ termResult
    /\ condState[2] = FreshStateOf(TermCondition.conditions[2])

\* C11: a composite with zero conditions (constructed empty, constructed
\* from nil conditions only, or emptied by RemoveCondition) evaluates to
\* false under both operators, and a composite evaluated against a nil
\* engine evaluates to false and evaluates none of its members: their
\* counters stay as they were.
C11_EmptyOrNilEngineIsFalse ==
    /\ []((lastCall = "Evaluate:ga" /\ Len(TermCondition.conditions) = 0) =>
             ~termResult)
    /\ [](lastCall = "Evaluate:nil" => ~termResult)
    /\ [][lastCall' = "Evaluate:nil" => condState' = condState]_vars

\* C11's case: an AND composite without conditions, evaluated on the engine
\* for at least the second time, is false.
C11_Witness ==
    /\ lastCall = "Evaluate:ga"
    /\ TermCondition.param = "All"
    /\ Len(TermCondition.conditions) = 0
    /\ termSteps >= 2
    /\ ~termResult

\* The k-th evaluation saw a best fitness above that of every earlier one.
Improved(seen, k) == \A j \in 1..(k - 1) : seen[k] > seen[j]

\* None of the last n evaluations saw an improvement.
Stagnant(seen, n) ==
    /\ Len(seen) >= n
    /\ \A k \in (Len(seen) - n + 1)..Len(seen) : ~Improved(seen, k)

\* C20: FitnessStagnationTermination(n), n < 1 taken as 1, returns true
\* exactly when the best fitness did not strictly improve in any of the last
\* n evaluations of the instance, whatever the fitness values, negative ones
\* included; an evaluation whose best fitness exceeds every earlier one
\* leaves the count at 0.
C20_StagnationExact ==
    termSteps > 0 =>
        /\ TermCondition.param >= 1
        /\ termResult = Stagnant(observed, TermCondition.param)
        /\ Improved(observed, Len(observed)) => condState[1].count = 0

\* ---------------------------------------- diversity stagnation, on its own
\* The statistics of a population of two whose fitness values lie `spread`
\* apart: its diversity is spread / 2.
StatisticsWithSpread(spread) ==
    CalculateStatistics(<<[Genotype |-> FailGenome, Phenotype |-> <<0>>],
                          [Genotype |-> FailGenome, Phenotype |-> <<spread>>]>>,
                        <<1, 2>>, ZeroStatistics)

InitDiversity ==
    /\ TermCondition \in
          {DiversityStagnationTermination(generations) :
              generations \in (-1)..MaxTermSteps}
    /\ condState = InitialCondState(TermCondition)
    /\ aloneState = <<>>
    /\ aloneResult = <<>>
    /\ observed = <<>>
    /\ termResult = FALSE
    /\ termSteps = 0
    /\ \E spread \in 0..MaxSpread :
          /\ Statistics = StatisticsWithSpread(spread)
          /\ History = <<Statistics>>
    /\ EngineAtRest

\* A generation passes: new statistics, none recorded in History here.
DiversityGeneration(spread) ==
    /\ Statistics' = StatisticsWithSpread(spread)
    /\ UNCHANGED <<aroundStagnation, History, condState, termResult, termSteps,
                   observed>>

\* ga.TermCondition.Evaluate(ga)
DiversityCall ==
    /\ termSteps < MaxTermSteps
    /\ LET r == Evaluate(TermCondition, condState, View)
       IN  /\ termResult' = r.res
           /\ condState' = r.st
    /\ observed' = Append(observed, View.Diversity)
    /\ termSteps' = termSteps + 1
    /\ UNCHANGED <<aroundStagnation, Statistics, History>>

NextDiversity ==
    \/ \E spread \in 0..MaxSpread : DiversityGeneration(spread)
    \/ DiversityCall

SpecDiversity == InitDiversity /\ [][NextDiversity]_vars

\* C21: DiversityStagnationTermination(n), n < 1 taken as 1, returns true on
\* an evaluation exactly when each of the last n evaluations of the instance
\* saw a diversity not above the highest seen before it; an evaluation with
\* a diversity above every earlier one leaves the count at 0, and the first
\* evaluation never returns true.
C21_DiversityStagnationExact ==
    termSteps > 0 =>
        /\ TermCondition.param >= 1
        /\ termResult = Stagnant(observed, TermCondition.param)
        /\ Improved(observed, Len(observed)) => condState[1].count = 0
        /\ termSteps = 1 => ~termResult

\* ------------------------------------------------ Population, on its own
\* What initFunc may return: individuals of any genome and fitness.
InitFuncOutputs ==
    [Genotype : Genomes, Phenotype : {<<f>> : f \in 0..(GenomeLen + 1)}]

\* NewPopulation(size, initFunc): make([]*Individual, size) panics for a
\* negative size, calling a nil initFunc panics, and size individuals are
\* made otherwise, none for size 0.  made[i] is what the i-th call returns.
NewPopulation(size, initFunc, made) ==
    IF size < 0 \/ (size > 0 /\ initFunc = "nil initializer")
    THEN [panic |-> TRUE, heap |-> <<>>, Individuals |-> <<>>]
    ELSE [panic |-> FALSE,
          heap |-> [i \in 1..size |-> made[i]],
          Individuals |-> [i \in 1..size |-> i]]

aroundPopulation == <<History, Generations, ElitismCount, NumParallelEvals,
                      MutationRate, CrossoverRate, TermCondition, condState,
                      callerVars, runVars, completed, runStart, lastGood, preGen,
                      poolVars, termVars>>

InitPopulation ==
    /\ Generations = 0
    /\ ElitismCount = 0
    /\ NumParallelEvals = 1
    /\ MutationRate = DefaultMutationRate
    /\ CrossoverRate = DefaultCrossoverRate
    /\ TermCondition = NoCondition
    /\ evalFail = "none"
    /\ nilOperators = {}
    /\ AdaptiveParams = FALSE
    /\ Unstarted

\* pop := NewPopulation(size, initFunc)
PopulationNew(size, initFunc, made) ==
    /\ pc = "idle"
    /\ lastCall = "none"
    /\ initArgs' = [populationSize |-> size, collaborators |-> initFunc]
    /\ LET r == NewPopulation(size, initFunc, made)
       IN  IF r.panic
           THEN /\ Panics("NewPopulation")
                /\ UNCHANGED <<heap, Individuals, Statistics>>
           ELSE /\ heap' = r.heap
                /\ Individuals' = r.Individuals
                /\ Statistics' = ZeroStatistics
                /\ Returns("NewPopulation:ok")
                /\ UNCHANGED <<pc, returned, initializedWith, panicCause>>
    /\ UNCHANGED aroundPopulation

\* pop.CalculateStatistics()
PopulationStatistics ==
    /\ pc = "idle"
    /\ lastCall = "NewPopulation:ok"
    /\ Statistics' = CalculateStatistics(heap, Individuals, Statistics)
    /\ UNCHANGED <<aroundPopulation, pc, heap, Individuals, callVars, initArgs>>

\* pop.SortByFitness()
PopulationSort ==
    /\ pc = "idle"
    /\ lastCall = "NewPopulation:ok"
    /\ Individuals' \in SortedOrders(heap, Individuals)
    /\ UNCHANGED <<aroundPopulation, pc, heap, Statistics, callVars, initArgs>>

NextPopulation ==
    \/ \E size \in (-1)..MaxPop :
       \E initFunc \in {"present", "nil initializer"} :
       \E made \in IF size > 0 /\ initFunc = "present"
                    THEN [1..size -> InitFuncOutputs] ELSE {<<>>} :
          PopulationNew(size, initFunc, made)
    \/ PopulationStatistics
    \/ PopulationSort

SpecPopulation == InitPopulation /\ [][NextPopulation]_vars

\* C22: NewPopulation(size, initFn) fails and reports the failure to its
\* caller, without a panic and without an empty population, when size <= 0
\* or initFn is nil; otherwise it returns exactly size individuals, each
\* from one call of initFn.
C22_NewPopulationValidates ==
    initArgs # NoArgs =>
        IF initArgs.populationSize <= 0 \/ initArgs.collaborators = "nil initializer"
        THEN pc = "idle" /\ lastCall = "NewPopulation:error"
        ELSE /\ pc = "idle" /\ lastCall = "NewPopulation:ok"
             /\ Len(Individuals) = initArgs.populationSize
             /\ Len(heap) = initArgs.populationSize

\* The slot of individual r in the slice inds.
SlotOf(inds, r) == CHOOSE i \in 1..Len(inds) : inds[i] = r

\* Individuals of equal fitness stand in `after` in the order they had in
\* `before`.
TiesKept(h, before, after) ==
    \A i, j \in 1..Len(before) :
        (i < j /\ Fit(h, before[i]) = Fit(h, before[j])) =>
            SlotOf(after, before[i]) < SlotOf(after, before[j])

\* C23: SortByFitness leaves the population in descending order of
\* fitness, a permutation of the same individuals, those of equal fitness
\* in the relative order they had before the sort.
C23_SortIsStable ==
    [][(lastCall = "NewPopulation:ok" /\ Individuals' # Individuals) =>
          /\ \A i \in 1..(Len(Individuals') - 1) :
                Fit(heap, Individuals'[i]) >= Fit(heap, Individuals'[i + 1])
          /\ Len(Individuals') = Len(Individuals)
          /\ Range(Individuals') = Range(Individuals)
          /\ TiesKept(heap, Individuals, Individuals')]_vars

\* ------------------------------------------------- crossover, on its own
\* A crossover operator is called on a population of evaluated
\* individuals, with a rate of 0, of 1 or between.
aroundCrossover == <<pc, Individuals, Statistics, History, Generations,
                     ElitismCount, NumParallelEvals, MutationRate, CrossoverRate,
                     TermCondition, condState, callerVars, gen, bestIndividual,
                     bestFitness, selectedIndividuals, elites, reinit, returned,
                     initializedWith, panicCause, progressVars, preGen, poolVars,
                     termVars>>

InitCrossover ==
    /\ \E n \in 0..MaxPop : \E genomes \in [1..n -> Genomes] :
          /\ heap = [i \in 1..n |->
                       [Genotype |-> genomes[i],
                        Phenotype |-> <<CountOnes(genomes[i])>>]]
          /\ selectedIndividuals = [i \in 1..n |-> i]
    /\ CrossoverRate \in {0, 500, 700, 1000}
    /\ pc = "cross"
    /\ Individuals = <<>>
    /\ Statistics = ZeroStatistics
    /\ History = <<>>
    /\ Generations = 1
    /\ ElitismCount = 0
    /\ NumParallelEvals = 1
    /\ MutationRate = DefaultMutationRate
    /\ TermCondition = NoCondition
    /\ condState = InitialCondState(TermCondition)
    /\ evalFail = "none"
    /\ nilOperators = {}
    /\ AdaptiveParams = FALSE
    /\ gen = 0
    /\ bestIndividual = Nil
    /\ bestFitness = 0
    /\ offspring = <<>>
    /\ elites = <<>>
    /\ lastCall = "none"
    /\ reinit = FALSE
    /\ returned = Nil
    /\ initializedWith = 0
    /\ panicCause = "none"
    /\ completed = 0
    /\ runStart = 0
    /\ initArgs = NoArgs
    /\ lastGood = NothingYet
    /\ preGen = <<>>
    /\ PoolIdle
    /\ HarnessIdle

\* offspring := SinglePointCrossover(population, crossoverRate)
SinglePointCall ==
    /\ lastCall = "none"
    /\ \E choice \in CrossChoices(selectedIndividuals, CrossoverRate) :
          LET r == SinglePointCrossover(heap, selectedIndividuals, choice)
          IN  /\ heap' = r.heap
              /\ offspring' = r.offspring
    /\ lastCall' = "SinglePointCrossover"
    /\ UNCHANGED aroundCrossover

\* offspring := UniformCrossover(population, crossoverRate)
UniformCall ==
    /\ lastCall = "none"
    /\ \E choice \in UniformChoices(selectedIndividuals, CrossoverRate) :
          LET r == UniformCrossover(heap, selectedIndividuals, choice)
          IN  /\ heap' = r.heap
              /\ offspring' = r.offspring
    /\ lastCall' = "UniformCrossover"
    /\ UNCHANGED aroundCrossover

NextCrossover == SinglePointCall \/ UniformCall

SpecCrossover == InitCrossover /\ [][NextCrossover]_vars

\* C24: SinglePointCrossover and UniformCrossover return a population as
\* long as their input; each pair of slots is either passed through, the
\* same two individuals in the same slots, or replaced by two new children;
\* with rate 0 the output equals the input, and with rate 1 every pair is
\* replaced by two new children.
C24_CrossoverPairs ==
    lastCall \in {"SinglePointCrossover", "UniformCrossover"} =>
        LET input == selectedIndividuals
            isNew(r) == r > Len(input)
        IN  /\ Len(offspring) = Len(input)
            /\ \A i \in 1..(Len(input) \div 2) :
                  \/ /\ offspring[2 * i - 1] = input[2 * i - 1]
                     /\ offspring[2 * i] = input[2 * i]
                  \/ /\ isNew(offspring[2 * i - 1]) /\ isNew(offspring[2 * i])
                     /\ offspring[2 * i - 1] # offspring[2 * i]
            /\ CrossoverRate = 0 => offspring = input
            /\ CrossoverRate = 1000 =>
                  \A k \in 1..(2 * (Len(input) \div 2)) : isNew(offspring[k])

====
